---- MODULE Spec2Model ----
(***************************************************************************)
(* A model of blockchain-wallet-validator (src/src/index.ts).              *)
(*                                                                         *)
(* A string is a sequence of one-character strings; a character outside    *)
(* the Basic Multilingual Plane is written "U+XXXXX" and counts two UTF-16 *)
(* code units (JsLength).  JavaScript values that may be of several types  *)
(* are records with a "type" field.  The two external libraries, keccak256 *)
(* and bs58check, are tables of their values on the inputs the model uses. *)
(***************************************************************************)
EXTENDS Integers, Sequences, FiniteSets, TLC

VARIABLES
    fn,                       \* the exported function the last call entered
    address,                  \* the call's first argument
    options,                  \* the call's second argument (validateWalletAddress)
    forceChecksumValidation,  \* the call's third argument
    platform,                 \* "ok", or how the platform's hash primitive fails
    result,                   \* what validateWalletAddress returned (or that it threw)
    flag,                     \* what a boolean-valued exported function returned
    returned,                 \* the last call came back with a value
    flips,                    \* how many case flips led to the current address
    seen                      \* the earlier call the caller has kept, if any

vars == <<fn, address, options, forceChecksumValidation, platform, result, flag,
          returned, flips, seen>>

\* ---------------------------------------------------------------- characters

LowerLetters == <<"a","b","c","d","e","f","g","h","i","j","k","l","m",
                  "n","o","p","q","r","s","t","u","v","w","x","y","z">>
UpperLetters == <<"A","B","C","D","E","F","G","H","I","J","K","L","M",
                  "N","O","P","Q","R","S","T","U","V","W","X","Y","Z">>
DigitChars == <<"0","1","2","3","4","5","6","7","8","9">>

\* The position of c in seq, 0 when absent.
IndexOf(seq, c) ==
    IF \E i \in 1..Len(seq) : seq[i] = c
    THEN CHOOSE i \in 1..Len(seq) : seq[i] = c
    ELSE 0

\* A regular-expression character range such as a-k.
CharRange(seq, from, to) == { seq[i] : i \in IndexOf(seq, from)..IndexOf(seq, to) }

LowerSet == CharRange(LowerLetters, "a", "z")
UpperSet == CharRange(UpperLetters, "A", "Z")
DigitSet == CharRange(DigitChars, "0", "9")

\* The emoji and symbols of the model's alphabet: Extended_Pictographic,
\* Emoji_Presentation, and the ones that take two UTF-16 code units.
ExtendedPictographic == {"U+1F98A", "U+1F43B", "U+00A9"}
EmojiPresentation == {"U+1F98A", "U+1F43B", "U+1F3FB"}
Astral == {"U+1F98A", "U+1F43B", "U+1F3FB"}
\* What \s and String.prototype.trim treat as white space.
WhiteSpace == {" ", "\t", "\n", "U+00A0"}

toUpperCaseChar(c) ==
    IF c \in LowerSet THEN UpperLetters[IndexOf(LowerLetters, c)] ELSE c
toLowerCaseChar(c) ==
    IF c \in UpperSet THEN LowerLetters[IndexOf(UpperLetters, c)] ELSE c

toUpperCase(s) == [i \in 1..Len(s) |-> toUpperCaseChar(s[i])]
toLowerCase(s) == [i \in 1..Len(s) |-> toLowerCaseChar(s[i])]

\* String.prototype.length: UTF-16 code units.
JsLength(s) == Len(s) + Cardinality({ i \in 1..Len(s) : s[i] \in Astral })

startsWith(s, p) == Len(s) >= Len(p) /\ SubSeq(s, 1, Len(p)) = p
endsWith(s, p) == Len(s) >= Len(p) /\ SubSeq(s, Len(s) - Len(p) + 1, Len(s)) = p
\* s.slice(n): s without its first n characters.
sliceFrom(s, n) == SubSeq(s, n + 1, Len(s))
AllIn(s, class) == \A i \in 1..Len(s) : s[i] \in class

RECURSIVE trimStart(_)
trimStart(s) ==
    IF s # <<>> /\ Head(s) \in WhiteSpace THEN trimStart(Tail(s)) ELSE s
RECURSIVE trimEnd(_)
trimEnd(s) ==
    IF s # <<>> /\ s[Len(s)] \in WhiteSpace
    THEN trimEnd(SubSeq(s, 1, Len(s) - 1)) ELSE s
trim(s) == trimEnd(trimStart(s))

\* s.replace(/\.+$/, '')
RECURSIVE stripTrailingDots(_)
stripTrailingDots(s) ==
    IF s # <<>> /\ s[Len(s)] = "."
    THEN stripTrailingDots(SubSeq(s, 1, Len(s) - 1)) ELSE s

\* s.split('.')
RECURSIVE split(_)
split(s) ==
    IF \E i \in 1..Len(s) : s[i] = "."
    THEN LET i == CHOOSE k \in 1..Len(s) :
                      s[k] = "." /\ \A j \in 1..(k - 1) : s[j] # "."
         IN <<SubSeq(s, 1, i - 1)>> \o split(sliceFrom(s, i))
    ELSE <<s>>

\* ^(p1|p2|...)[class]{lo,hi}$
MatchPrefixed(s, prefixes, class, lo, hi) ==
    \E p \in prefixes :
        /\ startsWith(s, p)
        /\ Len(s) - Len(p) \in lo..hi
        /\ AllIn(sliceFrom(s, Len(p)), class)

\* -------------------------------------------------------- pattern registry

HexLower == DigitSet \cup CharRange(LowerLetters, "a", "f")
HexAny == HexLower \cup CharRange(UpperLetters, "A", "F")
\* [1-9A-HJ-NP-Za-km-z]
Base58 == CharRange(DigitChars, "1", "9") \cup CharRange(UpperLetters, "A", "H")
          \cup CharRange(UpperLetters, "J", "N") \cup CharRange(UpperLetters, "P", "Z")
          \cup CharRange(LowerLetters, "a", "k") \cup CharRange(LowerLetters, "m", "z")
\* [a-zA-HJ-NP-Z0-9]
Bech32Class == LowerSet \cup CharRange(UpperLetters, "A", "H")
               \cup CharRange(UpperLetters, "J", "N")
               \cup CharRange(UpperLetters, "P", "Z") \cup DigitSet
\* [A-Z2-7]
Base32 == UpperSet \cup CharRange(DigitChars, "2", "7")
\* [qpzry9x8gf2tvdw0s3jn54khce6mua7l]
CashAddrClass == {"q","p","z","r","y","9","x","8","g","f","2","t","v","d","w","0",
                  "s","3","j","n","5","4","k","h","c","e","6","m","u","a","7","l"}

Pfx_bitcoincash == <<"b","i","t","c","o","i","n","c","a","s","h",":">>
CosmosPrefixes == { <<"c","o","s","m","o","s">>, <<"o","s","m","o">>,
                    <<"a","x","e","l","a","r">>, <<"j","u","n","o">>,
                    <<"s","t","a","r","s">> }
\* (cosmos|osmo|axelar|juno|stars|r|bc1|tb1|ltc1|tltc1)
ConflictPrefixes == CosmosPrefixes \cup
    { <<"r">>, <<"b","c","1">>, <<"t","b","1">>, <<"l","t","c","1">>,
      <<"t","l","t","c","1">> }

\* /^0x[a-f0-9]{40}$/i
pat_evm(s) == MatchPrefixed(toLowerCase(s), {<<"0","x">>}, HexLower, 40, 40)
\* /^(cosmos|osmo|axelar|juno|stars)1[a-zA-Z0-9]{38}$/
pat_atom(s) == MatchPrefixed(s, { p \o <<"1">> : p \in CosmosPrefixes },
                             LowerSet \cup UpperSet \cup DigitSet, 38, 38)
\* /^[1-9A-HJ-NP-Za-km-z]{32,44}$/
pat_sol(s) == MatchPrefixed(s, {<<>>}, Base58, 32, 44)
pat_ada_mainnet(s) ==
    MatchPrefixed(s, {<<"a","d","d","r","1">>}, LowerSet \cup DigitSet, 98, 98)
pat_ada_testnet(s) ==
    MatchPrefixed(s, {<<"a","d","d","r","_","t","e","s","t","1">>},
                  LowerSet \cup DigitSet, 98, 98)
pat_ada_stake(s) ==
    MatchPrefixed(s, {<<"s","t","a","k","e","1">>}, LowerSet \cup DigitSet, 53, 53)
pat_ada_stakeTestnet(s) ==
    MatchPrefixed(s, {<<"s","t","a","k","e","_","t","e","s","t","1">>},
                  LowerSet \cup DigitSet, 53, 53)
\* /^[A-Z2-7]{58}$/
pat_algo(s) == MatchPrefixed(s, {<<>>}, Base32, 58, 58)
\* /^G[A-Z2-7]{55}$/
pat_xlm(s) == MatchPrefixed(s, {<<"G">>}, Base32, 55, 55)
\* /^(cb|ce|ab)[0-9]{2}[a-f0-9]{40}$/i
pat_ican(s) ==
    LET l == toLowerCase(s)
    IN /\ MatchPrefixed(l, {<<"c","b">>, <<"c","e">>, <<"a","b">>}, HexLower, 42, 42)
       /\ AllIn(SubSeq(l, 3, 4), DigitSet)
\* /^[1-9A-HJ-NP-Za-km-z]{47,48}$/
pat_dot(s) == MatchPrefixed(s, {<<>>}, Base58, 47, 48)
\* /^T[1-9A-HJ-NP-Za-km-z]{33}$/
pat_tron(s) == MatchPrefixed(s, {<<"T">>}, Base58, 33, 33)
pat_btc_legacy(s) == MatchPrefixed(s, {<<"1">>}, Base58, 25, 34)
pat_btc_segwit(s) == MatchPrefixed(s, {<<"3">>}, Base58, 25, 34)
pat_btc_nativeSegwit(s) ==
    MatchPrefixed(s, {<<"b","c","1">>, <<"t","b","1">>}, Bech32Class, 25, 89)
pat_ltc_legacy(s) == MatchPrefixed(s, {<<"L">>}, Base58, 26, 34)
pat_ltc_segwit(s) == MatchPrefixed(s, {<<"M">>}, Base58, 26, 34)
pat_ltc_nativeSegwit(s) ==
    MatchPrefixed(s, {<<"l","t","c","1">>, <<"t","l","t","c","1">>}, Bech32Class, 25, 89)
\* /^r[1-9A-HJ-NP-Za-km-z]{24,34}$/
pat_xrp(s) == MatchPrefixed(s, {<<"r">>}, Base58, 24, 34)
\* /^(bitcoincash:)?[qpzry9x8gf2tvdw0s3jn54khce6mua7l]{42}$/
pat_bch_cashAddr(s) == MatchPrefixed(s, {<<>>, Pfx_bitcoincash}, CashAddrClass, 42, 42)
\* /^[qp][qpzry9x8gf2tvdw0s3jn54khce6mua7l]{41}$/
pat_bch_address(s) == MatchPrefixed(s, {<<"q">>, <<"p">>}, CashAddrClass, 41, 41)
\* /^[A-Z][1-9A-HJ-NP-Za-km-z]{33}$/ (local to the Tron stage)
tronLikePattern(s) == MatchPrefixed(s, { <<c>> : c \in UpperSet }, Base58, 33, 33)
\* Variant: the exclusion list without the XRP prefix.
conflictPrefix_withoutR(s) ==
    \E p \in ConflictPrefixes \ {<<"r">>} : startsWith(s, p)
\* /^(cosmos|osmo|axelar|juno|stars|r|bc1|tb1|ltc1|tltc1)/
conflictPrefix(s) == \E p \in ConflictPrefixes : startsWith(s, p)
\* /^(addr1|addr_test1|stake1|stake_test1)/
adaPrefix(s) ==
    \E p \in { <<"a","d","d","r","1">>, <<"a","d","d","r","_","t","e","s","t","1">>,
               <<"s","t","a","k","e","1">>,
               <<"s","t","a","k","e","_","t","e","s","t","1">> } : startsWith(s, p)

\* ------------------------------------------------------------ test vectors

\* The addresses the tests validate, each with the line of the test that holds
\* it; oneUpper, digits, bch_bare and bch_bare0 are further inputs of the
\* same forms.
TestAddress ==
    [
      evm_checksummed |->  \* line 45
        <<"0","x","5","a","A","e","b","6","0","5","3","F","3","E","9","4","C","9","b","9","A",
        "0","9","f","3","3","6","6","9","4","3","5","E","7","E","f","1","B","e","A","e","d">>,
      evm_lowercase |->  \* line 54
        <<"0","x","5","a","a","e","b","6","0","5","3","f","3","e","9","4","c","9","b","9","a",
        "0","9","f","3","3","6","6","9","4","3","5","e","7","e","f","1","b","e","a","e","d">>,
      evm_badChecksum |->  \* line 62
        <<"0","x","5","A","A","e","b","6","0","5","3","F","3","E","9","4","C","9","b","9","A",
        "0","9","f","3","3","6","6","9","4","3","5","E","7","E","f","1","B","e","A","e","d">>,
      evm_uppercase |->  \* line 1461
        <<"0","x","5","A","A","E","B","6","0","5","3","F","3","E","9","4","C","9","B","9","A",
        "0","9","F","3","3","6","6","9","4","3","5","E","7","E","F","1","B","E","A","E","D">>,
      evm2_checksummed |->  \* line 807
        <<"0","x","4","8","3","8","B","1","0","6","F","C","e","9","6","4","7","B","d","f","1",
        "E","7","8","7","7","B","F","7","3","c","E","8","B","0","B","A","D","5","f","9","7">>,
      evm2_uppercase |->  \* line 821
        <<"0","x","4","8","3","8","B","1","0","6","F","C","E","9","6","4","7","B","D","F","1",
        "E","7","8","7","7","B","F","7","3","C","E","8","B","0","B","A","D","5","F","9","7">>,
      evm_oneUpper |->
        <<"0","x","0","0","0","0","0","0","0","0","0","0","0","0","0","0","0","0","0","0","0",
        "0","0","0","0","0","0","0","0","0","0","0","0","0","0","0","0","0","0","1","a","B">>,
      evm_digits |->
        <<"0","x","1","2","3","4","5","6","7","8","9","0","1","2","3","4","5","6","7","8","9",
        "0","1","2","3","4","5","6","7","8","9","0","1","2","3","4","5","6","7","8","9","0">>,
      evm_short |->  \* line 1090
        <<"0","x","1","2","3">>,
      evm_invalid |->  \* line 1471
        <<"0","x","i","n","v","a","l","i","d">>,
      ican_cb |->  \* line 420
        <<"c","b","7","1","4","7","8","7","9","0","1","1","e","a","2","0","7","d","f","5","b",
        "3","5","a","2","4","c","a","6","f","0","8","5","9","d","c","f","b","1","4","5","9",
        "9","9">>,
      ican_ce |->  \* line 672
        <<"c","e","4","5","0","0","0","0","0","0","0","0","0","0","0","0","0","0","0","0","0",
        "0","0","0","0","0","0","0","0","0","0","0","0","0","0","0","0","0","0","0","0","0",
        "0","0">>,
      ican_ab |->  \* line 681
        <<"a","b","7","9","2","2","1","5","c","4","3","f","c","2","1","3","c","0","2","1","8",
        "2","c","8","3","8","9","f","2","b","c","3","2","4","0","8","e","2","c","5","0","9",
        "2","2">>,
      ican_AB |->  \* line 686
        <<"A","B","7","9","2","2","1","5","C","4","3","F","C","2","1","3","C","0","2","1","8",
        "2","C","8","3","8","9","F","2","B","C","3","2","4","0","8","E","2","C","5","0","9",
        "2","2">>,
      ican_mixed |->  \* line 725
        <<"c","B","7","1","4","7","8","7","9","0","1","1","e","A","2","0","7","d","f","5","b",
        "3","5","a","2","4","c","a","6","f","0","8","5","9","d","c","f","b","1","4","5","9",
        "9","9">>,
      ican_cb_bad |->  \* line 734
        <<"c","b","7","1","4","7","8","7","9","0","1","1","e","a","2","0","7","d","f","5","b",
        "3","5","a","2","4","c","a","6","f","0","8","5","9","d","c","f","b","1","4","5","9",
        "9","0">>,
      ican_cc |->  \* line 777
        <<"c","c","7","1","4","7","8","7","9","0","1","1","e","a","2","0","7","d","f","5","b",
        "3","5","a","2","4","c","a","6","f","0","8","5","9","d","c","f","b","1","4","5","9",
        "9","9">>,
      btc_legacy |->  \* line 296
        <<"1","B","v","B","M","S","E","Y","s","t","W","e","t","q","T","F","n","5","A","u","4",
        "m","4","G","F","g","7","x","J","a","N","V","N","2">>,
      btc_legacy_bad |->  \* line 864
        <<"1","B","v","B","M","S","E","Y","s","t","W","e","t","q","T","F","n","5","A","u","4",
        "m","4","G","F","g","7","x","J","a","N","V","N","3">>,
      btc_segwit |->  \* line 300
        <<"3","J","9","8","t","1","W","p","E","Z","7","3","C","N","m","Q","v","i","e","c","r",
        "n","y","i","W","r","n","q","R","h","W","N","L","y">>,
      btc_segwit_bad |->  \* line 872
        <<"3","J","9","8","t","1","W","p","E","Z","7","3","C","N","m","Q","v","i","e","c","r",
        "n","y","i","W","r","n","q","R","h","W","N","L","x">>,
      btc_native |->  \* line 304
        <<"b","c","1","q","a","r","0","s","r","r","r","7","x","f","k","v","y","5","l","6","4",
        "3","l","y","d","n","w","9","r","e","5","9","g","t","z","z","w","f","5","m","d","q">>,
      btc_testnet |->  \* line 322
        <<"t","b","1","q","w","5","0","8","d","6","q","e","j","x","t","d","g","4","y","5","r",
        "3","z","a","r","v","a","r","y","0","c","5","x","w","7","k","x","p","j","z","s","x">>,
      ltc_legacy |->  \* line 374
        <<"L","V","g","2","k","J","o","F","N","g","4","5","N","b","p","y","5","3","h","7","F",
        "e","1","w","K","y","e","X","V","R","h","M","H","9">>,
      ltc_legacy_bad |->  \* line 890
        <<"L","V","g","2","k","J","o","F","N","g","4","5","N","b","p","y","5","3","h","7","F",
        "e","1","w","K","y","e","X","V","R","h","M","H","8">>,
      ltc_segwit |->  \* line 378
        <<"M","A","D","H","w","H","m","U","f","k","Y","6","G","9","s","o","H","6","f","D","i",
        "L","d","1","F","n","x","G","W","o","g","f","S","H">>,
      ltc_segwit_bad |->  \* line 898
        <<"M","A","D","H","w","H","m","U","f","k","Y","6","G","9","s","o","H","6","f","D","i",
        "L","d","1","F","n","x","G","W","o","g","f","S","K">>,
      ltc_native |->  \* line 382
        <<"l","t","c","1","q","g","4","2","p","7","c","3","x","4","p","d","d","p","j","4","e",
        "f","h","k","z","0","l","m","5","g","8","n","w","h","3","q","n","z","4","l","s","s",
        "9">>,
      ltc_testnet |->  \* line 400
        <<"t","l","t","c","1","q","k","2","e","r","g","l","0","h","v","g","8","g","8","r","8",
        "9","n","w","q","j","l","6","m","6","k","7","6","r","g","w","s","h","9","5","q","m",
        "9","d">>,
      atom_cosmos |->  \* line 277
        <<"c","o","s","m","o","s","1","y","w","6","g","4","4","c","4","p","q","d","2","r","x",
        "g","r","c","q","e","k","x","g","9","k","8","f","4","f","d","8","x","p","x","2","k",
        "8","c","3">>,
      atom_osmo |->  \* line 280
        <<"o","s","m","o","1","y","w","6","g","4","4","c","4","p","q","d","2","r","x","g","r",
        "c","q","e","k","x","g","9","k","8","f","4","f","d","8","x","p","a","b","c","d","1",
        "2">>,
      ada_mainnet |->  \* line 437
        <<"a","d","d","r","1","q","y","t","h","p","n","v","g","h","8","c","p","t","w","j","r",
        "e","m","j","y","h","t","u","9","s","8","h","j","h","u","m","h","l","3","9","4","u",
        "u","8","k","j","8","g","0","e","8","z","c","c","j","v","5","3","f","g","u","u","9",
        "z","3","x","s","t","5","m","d","4","n","p","5","3","4","f","y","0","r","6","t","3",
        "a","d","5","p","7","e","6","3","q","a","0","k","s","5","j","9","y","k","y">>,
      ada_testnet |->  \* line 1374
        <<"a","d","d","r","_","t","e","s","t","1","q","z","2","f","x","v","2","u","m","y","h",
        "t","t","k","x","y","x","p","8","x","0","d","l","p","d","t","3","k","6","c","w","n",
        "g","5","p","x","j","3","j","h","s","y","d","z","e","r","3","j","c","u","5","d","8",
        "p","s","7","z","e","x","2","k","2","x","t","3","u","q","x","g","j","q","n","n","j",
        "8","3","w","s","8","l","h","r","n","6","4","8","j","j","x","t","w","q","2","y","t",
        "j","q","p">>,
      xrp |->  \* line 466
        <<"r","9","q","h","s","H","6","x","H","y","K","A","j","G","h","g","A","9","a","n","p",
        "W","J","J","m","V","D","A","w","D","G","f","n","6">>,
      tron |->  \* line 495
        <<"T","R","W","B","q","i","q","o","F","Z","y","s","o","A","e","y","R","1","J","3","5",
        "i","b","u","y","c","8","E","v","h","U","A","o","Y">>,
      tron_like |->  \* line 620
        <<"B","R","W","B","q","i","q","o","F","Z","y","s","o","A","e","y","R","1","J","3","5",
        "i","b","u","y","c","8","E","v","h","U","A","o","Y">>,
      tron_short |->  \* line 618
        <<"T","R","W","B","q","i","q","o","F","Z","y","s","o","A","e","y","R","1","J","3","5",
        "i","b","u","y","c","8","E","v","h","U","A","o">>,
      sol |->  \* line 256
        <<"D","R","p","b","C","B","M","x","V","n","D","K","7","m","a","P","M","5","t","G","v",
        "6","M","v","B","3","v","1","s","R","M","C","8","6","P","Z","8","o","k","m","2","1",
        "h","y">>,
      dot |->  \* line 447
        <<"1","4","h","a","4","T","k","K","n","H","m","m","Y","Q","e","F","a","F","w","8","u",
        "m","5","v","x","5","W","g","A","5","p","j","j","c","g","4","b","9","J","j","B","6",
        "H","X","M","d","i","u">>,
      algo |->  \* line 475
        <<"2","O","L","D","Y","P","K","U","O","P","F","N","6","Z","E","Q","3","U","L","Y","S",
        "N","E","Q","Z","I","K","7","F","Q","Y","C","L","3","4","L","O","G","H","3","T","X",
        "S","S","Q","O","C","2","7","2","V","B","7","J","W","N","M","Q">>,
      xlm |->  \* line 484
        <<"G","A","K","S","5","N","R","N","U","R","V","D","K","6","W","K","L","E","E","F","P",
        "E","U","B","3","C","5","H","3","V","P","U","R","L","2","6","P","V","Q","3","E","P",
        "I","Y","J","T","2","B","3","5","N","M","A","Z","H","A">>,
      bch_prefixed |->  \* line 340
        <<"b","i","t","c","o","i","n","c","a","s","h",":","q","p","m","2","q","s","z","n","h",
        "k","s","2","3","z","7","6","2","9","m","m","s","6","s","4","c","w","e","f","7","4",
        "v","c","w","v","y","2","2","g","d","x","6","a">>,
      bch_bare |->
        <<"q","p","m","2","q","s","z","n","h","k","s","2","3","z","7","6","2","9","m","m","s",
        "6","s","4","c","w","e","f","7","4","v","c","w","v","y","2","2","g","d","x","6","a">>,
      bch_bare0 |->
        <<"q","p","m","2","q","s","z","n","h","k","s","2","3","z","7","6","2","9","m","m","s",
        "6","s","4","c","w","e","f","7","4","v","c","w","v","y","2","2","g","d","x","6","0">>,
      ns_vitalik |->  \* line 72
        <<"v","i","t","a","l","i","k",".","e","t","h">>,
      ns_sub |->  \* line 162
        <<"w","a","l","l","e","t",".","v","i","t","a","l","i","k",".","e","t","h">>,
      ns_fox |->  \* line 83
        <<"U+1F98A",".","e","t","h">>,
      ns_dots |->  \* line 123
        <<"U+1F98A",".",".","e","t","h">>,
      invalid |->  \* line 1131
        <<"i","n","v","a","l","i","d","-","a","d","d","r","e","s","s">>,
      blank |->  \* line 984
        <<" ">>
    ]

\* ------------------------------------------------- external libraries

\* bytesToHex(keccak256(new TextEncoder().encode(s))) for the lowercased bodies
\* of the test vectors; the model hashes no other string.
keccak256Hex(s) ==
    CASE s = sliceFrom(TestAddress.evm_lowercase, 2) ->
           <<"d","3","8","5","6","5","0","c","e","8","f","d","c","6","d","b",
             "7","e","e","3","a","0","9","1","d","3","4","8","1","4","d","b",
             "c","4","c","e","1","8","2","1","9","f","f","a","e","5","2","1",
             "8","2","e","f","f","f","4","0","3","4","d","7","0","7","e","5">>
      [] s = toLowerCase(sliceFrom(TestAddress.evm2_checksummed, 2)) ->
           <<"d","5","b","b","d","2","4","a","8","d","0","e","7","8","4","8",
             "1","4","e","d","4","a","3","1","a","f","1","4","6","9","8","e",
             "4","8","b","a","7","4","3","d","a","f","b","a","a","5","6","9",
             "c","7","4","1","a","b","d","d","1","4","9","8","f","d","b","a">>
      [] s = toLowerCase(sliceFrom(TestAddress.evm_oneUpper, 2)) ->
           <<"4","2","a","c","b","f","2","1","2","f","1","f","4","0","a","2",
             "5","b","a","7","e","e","0","a","f","e","6","c","f","c","c","6",
             "9","4","d","1","2","1","4","c","e","2","0","b","d","f","d","2",
             "b","b","9","7","c","5","9","f","7","7","9","e","d","7","4","3">>
      [] s = sliceFrom(TestAddress.evm_digits, 2) ->
           <<"c","9","b","6","3","f","f","e","a","5","8","b","d","2","9","0",
             "4","1","0","f","f","4","1","c","3","6","b","d","5","f","7","d",
             "3","6","5","c","b","9","e","8","1","e","c","9","9","2","5","d",
             "6","2","0","c","f","f","3","6","b","5","a","6","f","e","3","8">>

\* prefix followed by '1' up to a total length of n, like the tests'
\* 'r' + '1'.repeat(33).
Fill(prefix, n) == prefix \o [i \in 1..(n - Len(prefix)) |-> "1"]

\* base58check.decode(s) returns (TRUE) or throws (FALSE): the payload's
\* double-SHA256 checksum, tabulated for the strings the model decodes.
base58checkDecodes(s) ==
    CASE s \in {TestAddress.btc_legacy, TestAddress.btc_segwit, TestAddress.ltc_legacy, TestAddress.ltc_segwit} -> TRUE
      [] s \in {TestAddress.btc_legacy_bad, TestAddress.btc_segwit_bad, TestAddress.ltc_legacy_bad,
                TestAddress.ltc_segwit_bad} -> FALSE
      [] s \in { Fill(<<c>>, 34) : c \in {"1", "3", "L", "M"} } -> FALSE

\* ------------------------------------------------------ JavaScript values

Str(s) == [type |-> "string", str |-> s]
NonString(t) == [type |-> t, str |-> <<>>]

\* undefined | number | other, for maxTotalLength and maxLabelLength
NumUndefined == [type |-> "undefined", int |-> FALSE, n |-> 0]
Num(n) == [type |-> "number", int |-> TRUE, n |-> n]
NumFraction == [type |-> "number", int |-> FALSE, n |-> 0]

\* An entry of options.nsDomains: a string, or an object, or something else.
NsString(d) ==
    [type |-> "string", domainType |-> "string", domain |-> d,
     emojiAllowed |-> "undefined", maxTotalLength |-> NumUndefined,
     maxLabelLength |-> NumUndefined]
NsObject(domainType, d, emoji, maxTotal, maxLabel) ==
    [type |-> "object", domainType |-> domainType, domain |-> d,
     emojiAllowed |-> emoji, maxTotalLength |-> maxTotal,
     maxLabelLength |-> maxLabel]
NsOther(t) ==
    [type |-> t, domainType |-> "undefined", domain |-> <<>>,
     emojiAllowed |-> "undefined", maxTotalLength |-> NumUndefined,
     maxLabelLength |-> NumUndefined]

NetUndefined == [type |-> "undefined", items |-> <<>>]
NetNull == [type |-> "null", items |-> <<>>]
NetNonArray == [type |-> "string", items |-> <<>>]
\* an array of strings
Net(names) == [type |-> "array",
               items |-> [i \in 1..Len(names) |-> [type |-> "string", s |-> names[i]]]]
\* an array holding a number
NetWithNumber == [type |-> "array",
                  items |-> <<[type |-> "string", s |-> "evm"],
                              [type |-> "number", s |-> "1"]>>]

NsUndefined == [type |-> "undefined", items |-> <<>>]
NsNonArray == [type |-> "string", items |-> <<>>]
Ns(entries) == [type |-> "array", items |-> entries]

\* The options argument: an object with (possibly undefined) fields, or a
\* value of another type, whose fields all read as undefined.
OptionsObject(network, testnet, enabledLegacy, emojiAllowed, nsDomains) ==
    [type |-> "object", network |-> network, testnet |-> testnet,
     enabledLegacy |-> enabledLegacy, emojiAllowed |-> emojiAllowed,
     nsDomains |-> nsDomains]
OptionsOfType(t) ==
    [type |-> t, network |-> NetUndefined, testnet |-> "undefined",
     enabledLegacy |-> "undefined", emojiAllowed |-> "undefined",
     nsDomains |-> NsUndefined]
EmptyOptions == OptionsObject(NetUndefined, "undefined", "undefined", "undefined",
                              NsUndefined)
\* Variant: a default that configures the 'eth' suffix.
DefaultOptions_withEth ==
    OptionsObject(NetNull, "false", "true", "true", Ns(<<NsString(<<"e","t","h">>)>>))
\* the default value of the options parameter
DefaultOptions == OptionsObject(NetNull, "false", "true", "true", Ns(<<>>))

\* !options
Falsy(o) == o.type \in {"undefined", "null", "zero"}

\* ------------------------------------------------------------ NetworkInfo

NoMetadata ==
    [keys |-> {}, format |-> "", nsFormat |-> <<>>, isChecksumValid |-> FALSE,
     isTestnet |-> FALSE, isEnterprise |-> FALSE, codename |-> "",
     printFormat |-> <<>>, electronicFormat |-> <<>>, compatibleWith |-> <<>>,
     chain |-> <<>>, era |-> "", type |-> "", isSubdomain |-> FALSE,
     isEmoji |-> FALSE, maxTotalLength |-> 0, maxLabelLength |-> 0,
     emojiAllowed |-> FALSE]

\* {network, isValid, description, metadata}; kind tells a returned record
\* from an exception that left the function ("threw"), from validateOptions'
\* null ("null") and from a stage that did not return ("none").
Info(network, isValid, description, metadata) ==
    [kind |-> "info", network |-> network, isValid |-> isValid,
     description |-> description, descNum |-> 0, descStr |-> <<>>,
     message |-> "", metadata |-> metadata]
NULL == "null"
Null == [Info(NULL, FALSE, "", NoMetadata) EXCEPT !.kind = "null"]
None == [Info(NULL, FALSE, "", NoMetadata) EXCEPT !.kind = "none"]
Threw(message) ==
    [Info(NULL, FALSE, "", NoMetadata) EXCEPT !.kind = "threw", !.message = message]

\* ------------------------------------------------------- validateOptions

OptionsError(description) == Info(NULL, FALSE, description, NoMetadata)

\* s.trim() is empty
Blank(s) == trim(s) = <<>>

IsPositiveInteger(v) == v.type = "number" /\ v.int /\ v.n > 0

\* The checks of one nsDomains entry, in order: the description of the first
\* that fails, "" when the entry passes.
nsDomainEntryError(e) ==
    IF e.type = "string"
    THEN IF Blank(e.domain)
         THEN "Invalid options: nsDomain strings must be non-empty" ELSE ""
    ELSE IF e.type # "object"
    THEN "Invalid options: nsDomains entries must be strings or objects"
    ELSE IF e.domainType # "string" \/ Blank(e.domain)
    THEN "Invalid options: nsDomain objects must include a domain string"
    ELSE IF e.emojiAllowed \notin {"undefined", "true", "false"}
    THEN "Invalid options: nsDomain emojiAllowed must be a boolean"
    ELSE IF e.maxTotalLength.type # "undefined" /\ ~IsPositiveInteger(e.maxTotalLength)
    THEN "Invalid options: nsDomain maxTotalLength must be a positive integer"
    ELSE IF e.maxLabelLength.type # "undefined" /\ ~IsPositiveInteger(e.maxLabelLength)
    THEN "Invalid options: nsDomain maxLabelLength must be a positive integer"
    ELSE IF /\ e.maxLabelLength.type # "undefined"
            /\ e.maxTotalLength.type # "undefined"
            /\ e.maxLabelLength.n > e.maxTotalLength.n
    THEN "Invalid options: nsDomain maxLabelLength cannot exceed maxTotalLength"
    ELSE ""

\* Variant: enabledLegacy checked before testnet.
validateOptions_legacyFirst(o) ==
    IF Falsy(o) THEN Null
    ELSE IF o.network.type \notin {"undefined", "null", "array"}
    THEN OptionsError("Invalid options: network must be an array or null")
    ELSE IF /\ o.network.type = "array"
            /\ \E i \in 1..Len(o.network.items) : o.network.items[i].type # "string"
    THEN OptionsError("Invalid options: network array must contain only strings")
    ELSE IF o.enabledLegacy \notin {"undefined", "true", "false"}
    THEN OptionsError("Invalid options: enabledLegacy must be a boolean")
    ELSE IF o.testnet \notin {"undefined", "true", "false"}
    THEN OptionsError("Invalid options: testnet must be a boolean")
    ELSE IF o.emojiAllowed \notin {"undefined", "true", "false"}
    THEN OptionsError("Invalid options: emojiAllowed must be a boolean")
    ELSE IF o.nsDomains.type = "undefined" THEN Null
    ELSE IF o.nsDomains.type # "array"
    THEN OptionsError("Invalid options: nsDomains must be an array")
    ELSE LET items == o.nsDomains.items
             bad == { i \in 1..Len(items) : nsDomainEntryError(items[i]) # "" }
         IN IF bad = {} THEN Null
            ELSE OptionsError(nsDomainEntryError(
                     items[CHOOSE i \in bad : \A j \in bad : i <= j]))

validateOptions(o) ==
    IF Falsy(o) THEN Null
    ELSE IF o.network.type \notin {"undefined", "null", "array"}
    THEN OptionsError("Invalid options: network must be an array or null")
    ELSE IF /\ o.network.type = "array"
            /\ \E i \in 1..Len(o.network.items) : o.network.items[i].type # "string"
    THEN OptionsError("Invalid options: network array must contain only strings")
    ELSE IF o.testnet \notin {"undefined", "true", "false"}
    THEN OptionsError("Invalid options: testnet must be a boolean")
    ELSE IF o.enabledLegacy \notin {"undefined", "true", "false"}
    THEN OptionsError("Invalid options: enabledLegacy must be a boolean")
    ELSE IF o.emojiAllowed \notin {"undefined", "true", "false"}
    THEN OptionsError("Invalid options: emojiAllowed must be a boolean")
    ELSE IF o.nsDomains.type = "undefined" THEN Null
    ELSE IF o.nsDomains.type # "array"
    THEN OptionsError("Invalid options: nsDomains must be an array")
    ELSE LET items == o.nsDomains.items
             bad == { i \in 1..Len(items) : nsDomainEntryError(items[i]) # "" }
         IN IF bad = {} THEN Null
            ELSE OptionsError(nsDomainEntryError(
                     items[CHOOSE i \in bad : \A j \in bad : i <= j]))

\* ------------------------------------------------------- enabledNetwork

enabledNetwork(networks, allowedNetworks) ==
    IF Len(allowedNetworks) = 0 THEN TRUE
    ELSE \E n \in networks : \E i \in 1..Len(allowedNetworks) : allowedNetworks[i] = n

\* --------------------------------------------------- validateEVMChecksum

HexDigits == <<"0","1","2","3","4","5","6","7","8","9","a","b","c","d","e","f">>
\* parseInt(c, 16) of one lowercase hex character
HexValue(c) == IndexOf(HexDigits, c) - 1

\* Variant: the nibble threshold moved from 7 to 8.
validateEVMChecksum_threshold8(addr, forceValidation, env) ==
    IF ~MatchPrefixed(addr, {<<"0","x">>}, HexAny, 40, 40)
    THEN [threw |-> FALSE, value |-> FALSE]
    ELSE IF ~forceValidation /\ (addr = toLowerCase(addr) \/ addr = toUpperCase(addr))
    THEN [threw |-> FALSE, value |-> TRUE]
    ELSE IF env # "ok"
    THEN [threw |-> TRUE, value |-> FALSE]
    ELSE LET stripAddress == sliceFrom(addr, 2)
             addressHash == keccak256Hex(toLowerCase(stripAddress))
         IN [threw |-> FALSE,
             value |-> ~\E i \in 1..40 :
                 LET hashChar == HexValue(addressHash[i])
                     addressChar == stripAddress[i]
                 IN \/ hashChar > 8 /\ toUpperCaseChar(addressChar) # addressChar
                    \/ hashChar <= 8 /\ toLowerCaseChar(addressChar) # addressChar]

\* Variant: only the letters that must be uppercase are checked.
validateEVMChecksum_upperOnly(addr, forceValidation, env) ==
    IF ~MatchPrefixed(addr, {<<"0","x">>}, HexAny, 40, 40)
    THEN [threw |-> FALSE, value |-> FALSE]
    ELSE IF ~forceValidation /\ (addr = toLowerCase(addr) \/ addr = toUpperCase(addr))
    THEN [threw |-> FALSE, value |-> TRUE]
    ELSE IF env # "ok"
    THEN [threw |-> TRUE, value |-> FALSE]
    ELSE LET stripAddress == sliceFrom(addr, 2)
             addressHash == keccak256Hex(toLowerCase(stripAddress))
         IN [threw |-> FALSE,
             value |-> ~\E i \in 1..40 :
                 LET hashChar == HexValue(addressHash[i])
                     addressChar == stripAddress[i]
                 IN hashChar > 7 /\ toUpperCaseChar(addressChar) # addressChar]

\* Returns a boolean, or throws when the platform lacks the hash primitive:
\* [threw, value].
validateEVMChecksum(addr, forceValidation, env) ==
    IF ~MatchPrefixed(addr, {<<"0","x">>}, HexAny, 40, 40)
    THEN [threw |-> FALSE, value |-> FALSE]
    ELSE IF ~forceValidation /\ (addr = toLowerCase(addr) \/ addr = toUpperCase(addr))
    THEN [threw |-> FALSE, value |-> TRUE]
    ELSE IF env # "ok"
    THEN [threw |-> TRUE, value |-> FALSE]
    ELSE LET stripAddress == sliceFrom(addr, 2)
             addressHash == keccak256Hex(toLowerCase(stripAddress))
         IN [threw |-> FALSE,
             value |-> ~\E i \in 1..40 :
                 LET hashChar == HexValue(addressHash[i])
                     addressChar == stripAddress[i]
                 IN \/ hashChar > 7 /\ toUpperCaseChar(addressChar) # addressChar
                    \/ hashChar <= 7 /\ toLowerCaseChar(addressChar) # addressChar]

\* -------------------------------------------------- validateICANChecksum

DigitValue(c) == IndexOf(DigitChars, c) - 1

RECURSIVE leadingDigits(_)
leadingDigits(s) ==
    IF s # <<>> /\ Head(s) \in DigitSet
    THEN <<Head(s)>> \o leadingDigits(Tail(s)) ELSE <<>>

RECURSIVE digitsValue(_)
digitsValue(d) ==
    IF d = <<>> THEN 0
    ELSE digitsValue(SubSeq(d, 1, Len(d) - 1)) * 10 + DigitValue(d[Len(d)])

\* parseInt(s, 10): leading white space, a sign, then the leading digits;
\* NaN when there are none.
parseInt10(s) ==
    LET t == trimStart(s)
        signed == t # <<>> /\ Head(t) \in {"+", "-"}
        d == leadingDigits(IF signed THEN Tail(t) ELSE t)
    IN [nan |-> d = <<>>, neg |-> signed /\ Head(t) = "-", abs |-> digitsValue(d)]

RECURSIVE numToString(_)
numToString(n) ==
    IF n < 10 THEN <<DigitChars[n + 1]>>
    ELSE numToString(n \div 10) \o <<DigitChars[(n % 10) + 1]>>

\* (parseInt(block, 10) % 97).toString(); the sign of % is the dividend's.
mod97ToString(p) ==
    IF p.nan THEN <<"N","a","N">>
    ELSE IF p.neg /\ p.abs % 97 # 0 THEN <<"-">> \o numToString(p.abs % 97)
    ELSE numToString(p.abs % 97)

\* Variant: every letter given the value of A.
convertChar_sameValue(c) ==
    IF c \in UpperSet THEN numToString(10) ELSE <<c>>
\* Variant: letters numbered from A=0 instead of A=10.
convertChar_fromZero(c) ==
    IF c \in UpperSet THEN numToString(IndexOf(UpperLetters, c) - 1) ELSE <<c>>
\* char => 'A' <= char <= 'Z' ? (code - 65 + 10).toString() : char
convertChar(c) ==
    IF c \in UpperSet THEN numToString(IndexOf(UpperLetters, c) - 1 + 10) ELSE <<c>>

RECURSIVE convert(_)
convert(s) == IF s = <<>> THEN <<>> ELSE convertChar(Head(s)) \o convert(Tail(s))

\* One pass of the while loop.
icanPass(remainder) ==
    LET block == SubSeq(remainder, 1, IF Len(remainder) < 9 THEN Len(remainder) ELSE 9)
    IN mod97ToString(parseInt10(block)) \o sliceFrom(remainder, Len(block))

\* The while loop: the remainder it ends with, or that it never ends (a pass
\* that leaves the string as it was repeats for ever).
RECURSIVE icanLoop(_)
icanLoop(remainder) ==
    IF Len(remainder) > 2
    THEN IF icanPass(remainder) = remainder
         THEN [terminates |-> FALSE, remainder |-> remainder]
         ELSE icanLoop(icanPass(remainder))
    ELSE [terminates |-> TRUE, remainder |-> remainder]

\* [terminates, value]
icanChecksum(addr) ==
    LET upper == toUpperCase(addr)
        rearranged == sliceFrom(upper, 4) \o SubSeq(upper, 1, IF Len(upper) < 4 THEN Len(upper) ELSE 4)
        loop == icanLoop(convert(rearranged))
        p == parseInt10(loop.remainder)
    IN [terminates |-> loop.terminates,
        value |-> loop.terminates /\ ~p.nan /\ ~p.neg /\ p.abs % 97 = 1]

validateICANChecksum(addr) == icanChecksum(addr).value

\* ------------------------------------------------- Name Service domains

\* nsDomainEntries.map(...): the entry with its domain trimmed and stripped
\* of trailing dots, and that domain lowercased.
normalizeNsDomain(e) ==
    [domain |-> stripTrailingDots(trim(e.domain)),
     normalizedDomain |-> toLowerCase(stripTrailingDots(trim(e.domain))),
     emojiAllowed |-> e.emojiAllowed,
     maxTotalLength |-> e.maxTotalLength,
     maxLabelLength |-> e.maxLabelLength]

\* address.includes('..')
includesDotDot(s) == \E i \in 1..(Len(s) - 1) : s[i] = "." /\ s[i + 1] = "."

\* [a-zA-Z0-9-\p{Emoji_Presentation}\p{Extended_Pictographic}]
NsLabelClass == LowerSet \cup UpperSet \cup DigitSet \cup {"-"}
                \cup EmojiPresentation \cup ExtendedPictographic

\* /^[class]+(?:\.[class]+)*\.[a-zA-Z]+$/u
validPattern(s) ==
    LET labels == split(s)
        n == Len(labels)
    IN /\ n >= 2
       /\ \A i \in 1..(n - 1) : labels[i] # <<>> /\ AllIn(labels[i], NsLabelClass)
       /\ labels[n] # <<>> /\ AllIn(labels[n], LowerSet \cup UpperSet)

NsInvalid(description) == Info("ns", FALSE, description, NoMetadata)

\* Variant: the label lengths checked before the total length.
stage_ns_labelFirst(a, o) ==
    LET entries == IF o.nsDomains.type = "array" THEN o.nsDomains.items ELSE <<>>
        nsDomainConfigs == [i \in 1..Len(entries) |-> normalizeNsDomain(entries[i])]
        globalEmojiAllowed == IF o.emojiAllowed = "undefined" THEN "true"
                              ELSE o.emojiAllowed
        addressForMatching == toLowerCase(stripTrailingDots(trim(a)))
        matching == { i \in 1..Len(nsDomainConfigs) :
                        \/ addressForMatching = nsDomainConfigs[i].normalizedDomain
                        \/ endsWith(addressForMatching,
                                    <<".">> \o nsDomainConfigs[i].normalizedDomain) }
    IN IF Len(nsDomainConfigs) = 0 \/ matching = {} THEN None
       ELSE
       LET matchedDomainConfig ==
               nsDomainConfigs[CHOOSE i \in matching : \A j \in matching : i <= j]
           maxTotalLength == IF matchedDomainConfig.maxTotalLength.type = "undefined"
                             THEN 255 ELSE matchedDomainConfig.maxTotalLength.n
           maxLabelLength == IF matchedDomainConfig.maxLabelLength.type = "undefined"
                             THEN 63 ELSE matchedDomainConfig.maxLabelLength.n
           emojiAllowedForDomain ==
               IF matchedDomainConfig.emojiAllowed = "undefined"
               THEN globalEmojiAllowed ELSE matchedDomainConfig.emojiAllowed
           labels == split(addressForMatching)
           containsEmojis == \E i \in 1..Len(a) : a[i] \in ExtendedPictographic
           domainLabelCount == Len(split(matchedDomainConfig.normalizedDomain))
       IN IF \E i \in 1..Len(labels) : JsLength(labels[i]) > maxLabelLength
          THEN [NsInvalid("NS domain label exceeds maximum length of N characters")
                  EXCEPT !.descNum = maxLabelLength]
          ELSE IF JsLength(addressForMatching) > maxTotalLength
          THEN [NsInvalid("NS domain exceeds maximum total length of N characters")
                  EXCEPT !.descNum = maxTotalLength]
          ELSE IF \/ a # trim(a)
                  \/ includesDotDot(a)
                  \/ \E i \in 1..Len(a) : a[i] \in WhiteSpace
                  \/ startsWith(a, <<".">>)
                  \/ endsWith(a, <<".">>)
          THEN NsInvalid("Invalid NS domain format")
          ELSE IF ~validPattern(a)
          THEN NsInvalid("Invalid NS domain format")
          ELSE IF containsEmojis /\ emojiAllowedForDomain = "false"
          THEN IF matchedDomainConfig.emojiAllowed # "undefined"
               THEN [NsInvalid("Emoji characters are disabled for NS domain D")
                       EXCEPT !.descStr = matchedDomainConfig.domain]
               ELSE NsInvalid("Emoji characters are disabled in NS domains")
          ELSE Info("ns", TRUE, "Name Service domain",
                    [NoMetadata EXCEPT
                        !.keys = {"format", "isSubdomain", "isEmoji", "maxTotalLength",
                                  "maxLabelLength", "emojiAllowed"},
                        !.nsFormat = matchedDomainConfig.domain,
                        !.isSubdomain = Len(labels) - domainLabelCount > 1,
                        !.isEmoji = containsEmojis,
                        !.maxTotalLength = maxTotalLength,
                        !.maxLabelLength = maxLabelLength,
                        !.emojiAllowed = emojiAllowedForDomain = "true"])

\* Variant: every suffix counted as one label.
stage_ns_oneLabelSuffix(a, o) ==
    LET entries == IF o.nsDomains.type = "array" THEN o.nsDomains.items ELSE <<>>
        nsDomainConfigs == [i \in 1..Len(entries) |-> normalizeNsDomain(entries[i])]
        globalEmojiAllowed == IF o.emojiAllowed = "undefined" THEN "true"
                              ELSE o.emojiAllowed
        addressForMatching == toLowerCase(stripTrailingDots(trim(a)))
        matching == { i \in 1..Len(nsDomainConfigs) :
                        \/ addressForMatching = nsDomainConfigs[i].normalizedDomain
                        \/ endsWith(addressForMatching,
                                    <<".">> \o nsDomainConfigs[i].normalizedDomain) }
    IN IF Len(nsDomainConfigs) = 0 \/ matching = {} THEN None
       ELSE
       LET matchedDomainConfig ==
               nsDomainConfigs[CHOOSE i \in matching : \A j \in matching : i <= j]
           maxTotalLength == IF matchedDomainConfig.maxTotalLength.type = "undefined"
                             THEN 255 ELSE matchedDomainConfig.maxTotalLength.n
           maxLabelLength == IF matchedDomainConfig.maxLabelLength.type = "undefined"
                             THEN 63 ELSE matchedDomainConfig.maxLabelLength.n
           emojiAllowedForDomain ==
               IF matchedDomainConfig.emojiAllowed = "undefined"
               THEN globalEmojiAllowed ELSE matchedDomainConfig.emojiAllowed
           labels == split(addressForMatching)
           containsEmojis == \E i \in 1..Len(a) : a[i] \in ExtendedPictographic
           domainLabelCount == Len(split(matchedDomainConfig.normalizedDomain))
       IN IF JsLength(addressForMatching) > maxTotalLength
          THEN [NsInvalid("NS domain exceeds maximum total length of N characters")
                  EXCEPT !.descNum = maxTotalLength]
          ELSE IF \E i \in 1..Len(labels) : JsLength(labels[i]) > maxLabelLength
          THEN [NsInvalid("NS domain label exceeds maximum length of N characters")
                  EXCEPT !.descNum = maxLabelLength]
          ELSE IF \/ a # trim(a)
                  \/ includesDotDot(a)
                  \/ \E i \in 1..Len(a) : a[i] \in WhiteSpace
                  \/ startsWith(a, <<".">>)
                  \/ endsWith(a, <<".">>)
          THEN NsInvalid("Invalid NS domain format")
          ELSE IF ~validPattern(a)
          THEN NsInvalid("Invalid NS domain format")
          ELSE IF containsEmojis /\ emojiAllowedForDomain = "false"
          THEN IF matchedDomainConfig.emojiAllowed # "undefined"
               THEN [NsInvalid("Emoji characters are disabled for NS domain D")
                       EXCEPT !.descStr = matchedDomainConfig.domain]
               ELSE NsInvalid("Emoji characters are disabled in NS domains")
          ELSE Info("ns", TRUE, "Name Service domain",
                    [NoMetadata EXCEPT
                        !.keys = {"format", "isSubdomain", "isEmoji", "maxTotalLength",
                                  "maxLabelLength", "emojiAllowed"},
                        !.nsFormat = matchedDomainConfig.domain,
                        !.isSubdomain = Len(labels) - 1 > 1,
                        !.isEmoji = containsEmojis,
                        !.maxTotalLength = maxTotalLength,
                        !.maxLabelLength = maxLabelLength,
                        !.emojiAllowed = emojiAllowedForDomain = "true"])

\* Variant: the last matching entry taken.
stage_ns_lastMatch(a, o) ==
    LET entries == IF o.nsDomains.type = "array" THEN o.nsDomains.items ELSE <<>>
        nsDomainConfigs == [i \in 1..Len(entries) |-> normalizeNsDomain(entries[i])]
        globalEmojiAllowed == IF o.emojiAllowed = "undefined" THEN "true"
                              ELSE o.emojiAllowed
        addressForMatching == toLowerCase(stripTrailingDots(trim(a)))
        matching == { i \in 1..Len(nsDomainConfigs) :
                        \/ addressForMatching = nsDomainConfigs[i].normalizedDomain
                        \/ endsWith(addressForMatching,
                                    <<".">> \o nsDomainConfigs[i].normalizedDomain) }
    IN IF Len(nsDomainConfigs) = 0 \/ matching = {} THEN None
       ELSE
       LET matchedDomainConfig ==
               nsDomainConfigs[CHOOSE i \in matching : \A j \in matching : i >= j]
           maxTotalLength == IF matchedDomainConfig.maxTotalLength.type = "undefined"
                             THEN 255 ELSE matchedDomainConfig.maxTotalLength.n
           maxLabelLength == IF matchedDomainConfig.maxLabelLength.type = "undefined"
                             THEN 63 ELSE matchedDomainConfig.maxLabelLength.n
           emojiAllowedForDomain ==
               IF matchedDomainConfig.emojiAllowed = "undefined"
               THEN globalEmojiAllowed ELSE matchedDomainConfig.emojiAllowed
           labels == split(addressForMatching)
           containsEmojis == \E i \in 1..Len(a) : a[i] \in ExtendedPictographic
           domainLabelCount == Len(split(matchedDomainConfig.normalizedDomain))
       IN IF JsLength(addressForMatching) > maxTotalLength
          THEN [NsInvalid("NS domain exceeds maximum total length of N characters")
                  EXCEPT !.descNum = maxTotalLength]
          ELSE IF \E i \in 1..Len(labels) : JsLength(labels[i]) > maxLabelLength
          THEN [NsInvalid("NS domain label exceeds maximum length of N characters")
                  EXCEPT !.descNum = maxLabelLength]
          ELSE IF \/ a # trim(a)
                  \/ includesDotDot(a)
                  \/ \E i \in 1..Len(a) : a[i] \in WhiteSpace
                  \/ startsWith(a, <<".">>)
                  \/ endsWith(a, <<".">>)
          THEN NsInvalid("Invalid NS domain format")
          ELSE IF ~validPattern(a)
          THEN NsInvalid("Invalid NS domain format")
          ELSE IF containsEmojis /\ emojiAllowedForDomain = "false"
          THEN IF matchedDomainConfig.emojiAllowed # "undefined"
               THEN [NsInvalid("Emoji characters are disabled for NS domain D")
                       EXCEPT !.descStr = matchedDomainConfig.domain]
               ELSE NsInvalid("Emoji characters are disabled in NS domains")
          ELSE Info("ns", TRUE, "Name Service domain",
                    [NoMetadata EXCEPT
                        !.keys = {"format", "isSubdomain", "isEmoji", "maxTotalLength",
                                  "maxLabelLength", "emojiAllowed"},
                        !.nsFormat = matchedDomainConfig.domain,
                        !.isSubdomain = Len(labels) - domainLabelCount > 1,
                        !.isEmoji = containsEmojis,
                        !.maxTotalLength = maxTotalLength,
                        !.maxLabelLength = maxLabelLength,
                        !.emojiAllowed = emojiAllowedForDomain = "true"])

\* The Name Service stage: the result it returns, None when no configured
\* domain matches.
stage_ns(a, o) ==
    LET entries == IF o.nsDomains.type = "array" THEN o.nsDomains.items ELSE <<>>
        nsDomainConfigs == [i \in 1..Len(entries) |-> normalizeNsDomain(entries[i])]
        globalEmojiAllowed == IF o.emojiAllowed = "undefined" THEN "true"
                              ELSE o.emojiAllowed
        addressForMatching == toLowerCase(stripTrailingDots(trim(a)))
        matching == { i \in 1..Len(nsDomainConfigs) :
                        \/ addressForMatching = nsDomainConfigs[i].normalizedDomain
                        \/ endsWith(addressForMatching,
                                    <<".">> \o nsDomainConfigs[i].normalizedDomain) }
    IN IF Len(nsDomainConfigs) = 0 \/ matching = {} THEN None
       ELSE
       LET matchedDomainConfig ==
               nsDomainConfigs[CHOOSE i \in matching : \A j \in matching : i <= j]
           maxTotalLength == IF matchedDomainConfig.maxTotalLength.type = "undefined"
                             THEN 255 ELSE matchedDomainConfig.maxTotalLength.n
           maxLabelLength == IF matchedDomainConfig.maxLabelLength.type = "undefined"
                             THEN 63 ELSE matchedDomainConfig.maxLabelLength.n
           emojiAllowedForDomain ==
               IF matchedDomainConfig.emojiAllowed = "undefined"
               THEN globalEmojiAllowed ELSE matchedDomainConfig.emojiAllowed
           labels == split(addressForMatching)
           containsEmojis == \E i \in 1..Len(a) : a[i] \in ExtendedPictographic
           domainLabelCount == Len(split(matchedDomainConfig.normalizedDomain))
       IN IF JsLength(addressForMatching) > maxTotalLength
          THEN [NsInvalid("NS domain exceeds maximum total length of N characters")
                  EXCEPT !.descNum = maxTotalLength]
          ELSE IF \E i \in 1..Len(labels) : JsLength(labels[i]) > maxLabelLength
          THEN [NsInvalid("NS domain label exceeds maximum length of N characters")
                  EXCEPT !.descNum = maxLabelLength]
          ELSE IF \/ a # trim(a)
                  \/ includesDotDot(a)
                  \/ \E i \in 1..Len(a) : a[i] \in WhiteSpace
                  \/ startsWith(a, <<".">>)
                  \/ endsWith(a, <<".">>)
          THEN NsInvalid("Invalid NS domain format")
          ELSE IF ~validPattern(a)
          THEN NsInvalid("Invalid NS domain format")
          ELSE IF containsEmojis /\ emojiAllowedForDomain = "false"
          THEN IF matchedDomainConfig.emojiAllowed # "undefined"
               THEN [NsInvalid("Emoji characters are disabled for NS domain D")
                       EXCEPT !.descStr = matchedDomainConfig.domain]
               ELSE NsInvalid("Emoji characters are disabled in NS domains")
          ELSE Info("ns", TRUE, "Name Service domain",
                    [NoMetadata EXCEPT
                        !.keys = {"format", "isSubdomain", "isEmoji", "maxTotalLength",
                                  "maxLabelLength", "emojiAllowed"},
                        !.nsFormat = matchedDomainConfig.domain,
                        !.isSubdomain = Len(labels) - domainLabelCount > 1,
                        !.isEmoji = containsEmojis,
                        !.maxTotalLength = maxTotalLength,
                        !.maxLabelLength = maxLabelLength,
                        !.emojiAllowed = emojiAllowedForDomain = "true"])

\* ------------------------------------------------------ the network chain

\* 'Validation failed: ' + error.message, the outer catch
ValidationFailed(message) ==
    [Info(NULL, FALSE, "Validation failed: ", NoMetadata) EXCEPT !.message = message]

\* Variant: a fault of the hash primitive reported as an invalid address.
stage_evm_faultAsInvalid(a, allowedNetworks, force, env) ==
    IF /\ startsWith(toLowerCase(a), <<"0","x">>)
       /\ enabledNetwork({"evm", "eth", "base", "pol"}, allowedNetworks)
    THEN IF ~pat_evm(a)
         THEN Info("evm", FALSE, "Invalid EVM address format", NoMetadata)
         ELSE LET isChecksumValid == validateEVMChecksum(a, force, env)
              IN IF isChecksumValid.threw
                 THEN Info("evm", FALSE, "Invalid EVM address format", NoMetadata)
                 ELSE Info("evm", isChecksumValid.value,
                           "Ethereum Virtual Machine compatible address (Ethereum, Polygon, BSC, etc.)",
                           [NoMetadata EXCEPT
                               !.keys = {"format", "isChecksumValid"},
                               !.format = "hex",
                               !.isChecksumValid = isChecksumValid.value])
    ELSE None

stage_evm(a, allowedNetworks, force, env) ==
    IF /\ startsWith(toLowerCase(a), <<"0","x">>)
       /\ enabledNetwork({"evm", "eth", "base", "pol"}, allowedNetworks)
    THEN IF ~pat_evm(a)
         THEN Info("evm", FALSE, "Invalid EVM address format", NoMetadata)
         ELSE LET isChecksumValid == validateEVMChecksum(a, force, env)
              IN IF isChecksumValid.threw
                 THEN ValidationFailed("keccak256 is not available")
                 ELSE Info("evm", isChecksumValid.value,
                           "Ethereum Virtual Machine compatible address (Ethereum, Polygon, BSC, etc.)",
                           [NoMetadata EXCEPT
                               !.keys = {"format", "isChecksumValid"},
                               !.format = "hex",
                               !.isChecksumValid = isChecksumValid.value])
    ELSE None

\* Variant: the groups joined by an ordinary space.
RECURSIVE printFormat_plainSpace(_)
printFormat_plainSpace(upper) ==
    IF Len(upper) <= 4 THEN upper
    ELSE SubSeq(upper, 1, 4) \o <<" ">> \o printFormat_plainSpace(sliceFrom(upper, 4))

\* address.toUpperCase().match(/.{1,4}/g).join(' ')
RECURSIVE printFormat(_)
printFormat(upper) ==
    IF Len(upper) <= 4 THEN upper
    ELSE SubSeq(upper, 1, 4) \o <<"U+00A0">> \o printFormat(sliceFrom(upper, 4))

stage_ican(a, o, allowedNetworks) ==
    IF /\ enabledNetwork({"ican", "xcb", "xce", "xab"}, allowedNetworks)
       /\ pat_ican(a)
    THEN LET isTestnet == startsWith(a, <<"a","b">>)
             isEnterprise == startsWith(a, <<"c","e">>)
             isChecksumValid == validateICANChecksum(a)
             prefix == toLowerCase(SubSeq(a, 1, 2))
             name == CASE prefix = <<"c","b">> -> "xcb"
                       [] prefix = <<"c","e">> -> "xce"
                       [] prefix = <<"a","b">> -> "xab"
         IN IF isTestnet /\ o.testnet # "true"
            THEN Info("xab", FALSE, "Testnet address not allowed", NoMetadata)
            ELSE Info(name, isChecksumValid,
                      "ICAN address for Core blockchain networks",
                      [NoMetadata EXCEPT
                          !.keys = {"format", "isChecksumValid", "codename", "isTestnet",
                                    "isEnterprise", "printFormat", "electronicFormat"},
                          !.format = "ican",
                          !.isChecksumValid = isChecksumValid,
                          !.codename = CASE prefix = <<"c","b">> -> "Mainnet"
                                         [] prefix = <<"c","e">> -> "Koliba"
                                         [] prefix = <<"a","b">> -> "Devin",
                          !.isTestnet = isTestnet,
                          !.isEnterprise = isEnterprise,
                          !.printFormat = printFormat(toUpperCase(a)),
                          !.electronicFormat = toUpperCase(a)])
    ELSE None

\* Variant: a payload that does not decode leaves the address to later stages.
Base58Result_fallThrough(a, network, validDescription, invalidDescription, format, compatibleWith) ==
    IF base58checkDecodes(a)
    THEN Info(network, TRUE, validDescription,
              [NoMetadata EXCEPT
                  !.keys = {"format", "isTestnet"}
                           \cup (IF compatibleWith = <<>> THEN {} ELSE {"compatibleWith"}),
                  !.format = format,
                  !.isTestnet = FALSE,
                  !.compatibleWith = compatibleWith])
    ELSE None
\* One base58check-decoded format of the Bitcoin and Litecoin stages.
Base58Result(a, network, validDescription, invalidDescription, format, compatibleWith) ==
    IF base58checkDecodes(a)
    THEN Info(network, TRUE, validDescription,
              [NoMetadata EXCEPT
                  !.keys = {"format", "isTestnet"}
                           \cup (IF compatibleWith = <<>> THEN {} ELSE {"compatibleWith"}),
                  !.format = format,
                  !.isTestnet = FALSE,
                  !.compatibleWith = compatibleWith])
    ELSE Info(network, FALSE, invalidDescription, NoMetadata)

\* The native segwit format of the Bitcoin and Litecoin stages.
NativeSegwitResult(a, o, network, testnetPrefix, description) ==
    LET isTestnet == startsWith(a, testnetPrefix)
    IN IF isTestnet /\ o.testnet # "true"
       THEN Info(network, FALSE, "Testnet address not allowed", NoMetadata)
       ELSE Info(network, TRUE, description,
                 [NoMetadata EXCEPT !.keys = {"format", "isTestnet"},
                                    !.format = "Native SegWit",
                                    !.isTestnet = isTestnet])

stage_btc(a, o, allowedNetworks) ==
    IF ~enabledNetwork({"btc"}, allowedNetworks) THEN None
    ELSE IF o.enabledLegacy = "true" /\ pat_btc_legacy(a)
    THEN Base58Result(a, "btc", "Bitcoin Legacy address",
                      "Invalid Bitcoin Legacy address", "Legacy", <<"bch">>)
    ELSE IF pat_btc_segwit(a)
    THEN Base58Result(a, "btc", "Bitcoin SegWit address",
                      "Invalid Bitcoin SegWit address", "SegWit", <<>>)
    ELSE IF pat_btc_nativeSegwit(a)
    THEN NativeSegwitResult(a, o, "btc", <<"t","b","1">>, "Bitcoin Native SegWit address")
    ELSE None

stage_ltc(a, o, allowedNetworks) ==
    IF ~enabledNetwork({"ltc"}, allowedNetworks) THEN None
    ELSE IF o.enabledLegacy = "true" /\ pat_ltc_legacy(a)
    THEN Base58Result(a, "ltc", "Litecoin Legacy address",
                      "Invalid Litecoin Legacy address", "Legacy", <<>>)
    ELSE IF pat_ltc_segwit(a)
    THEN Base58Result(a, "ltc", "Litecoin SegWit address",
                      "Invalid Litecoin SegWit address", "SegWit", <<>>)
    ELSE IF pat_ltc_nativeSegwit(a)
    THEN NativeSegwitResult(a, o, "ltc", <<"t","l","t","c","1">>,
                            "Litecoin Native SegWit address")
    ELSE None

stage_atom(a, allowedNetworks) ==
    IF enabledNetwork({"atom"}, allowedNetworks) /\ pat_atom(a)
    THEN Info("atom", TRUE, "Cosmos ecosystem address",
              [NoMetadata EXCEPT
                  !.keys = {"chain", "format"},
                  !.chain = CHOOSE p \in CosmosPrefixes : startsWith(a, p \o <<"1">>),
                  !.format = "bech32"])
    ELSE None

AdaValid(description, type, isTestnet) ==
    Info("ada", TRUE, description,
         [NoMetadata EXCEPT !.keys = {"format", "era", "type", "isTestnet"},
                            !.format = "bech32", !.era = "shelley",
                            !.type = type, !.isTestnet = isTestnet])

stage_ada(a, o, allowedNetworks) ==
    IF ~enabledNetwork({"ada"}, allowedNetworks) THEN None
    ELSE IF pat_ada_mainnet(a)
    THEN AdaValid("Cardano Shelley mainnet address", "payment", FALSE)
    ELSE IF pat_ada_testnet(a)
    THEN IF o.testnet # "true"
         THEN Info("ada", FALSE, "Testnet address not allowed", NoMetadata)
         ELSE AdaValid("Cardano Shelley testnet address", "payment", TRUE)
    ELSE IF pat_ada_stake(a)
    THEN AdaValid("Cardano stake address", "stake", FALSE)
    ELSE IF pat_ada_stakeTestnet(a)
    THEN IF o.testnet # "true"
         THEN Info("ada", FALSE, "Testnet address not allowed", NoMetadata)
         ELSE AdaValid("Cardano stake testnet address", "stake", TRUE)
    ELSE IF adaPrefix(a)
    THEN Info("ada", FALSE, "Invalid Cardano address format", NoMetadata)
    ELSE None

\* metadata {format, isTestnet: options.testnet || false}
Base58Metadata(format, o) ==
    [NoMetadata EXCEPT !.keys = {"format", "isTestnet"}, !.format = format,
                       !.isTestnet = o.testnet = "true"]

stage_xrp(a, allowedNetworks) ==
    IF enabledNetwork({"xrp"}, allowedNetworks) /\ pat_xrp(a)
    THEN Info("xrp", TRUE, "Ripple address",
              [NoMetadata EXCEPT !.keys = {"format", "isTestnet"},
                                 !.format = "base58", !.isTestnet = FALSE])
    ELSE None

stage_tron(a, o, allowedNetworks) ==
    IF /\ enabledNetwork({"trx", "tron"}, allowedNetworks)
       /\ (startsWith(a, <<"T">>) \/ tronLikePattern(a))
    THEN IF pat_tron(a)
         THEN Info("trx", TRUE, "Tron address", Base58Metadata("base58", o))
         ELSE Info("trx", FALSE, "Invalid address format", NoMetadata)
    ELSE None

stage_sol(a, o, allowedNetworks) ==
    IF enabledNetwork({"sol"}, allowedNetworks) /\ pat_sol(a)
    THEN IF conflictPrefix(a)
         THEN Info("sol", FALSE, "Invalid address format", NoMetadata)
         ELSE Info("sol", TRUE, "Solana address", Base58Metadata("base58", o))
    ELSE None

stage_dot(a, o, allowedNetworks) ==
    IF enabledNetwork({"dot"}, allowedNetworks) /\ pat_dot(a)
    THEN IF conflictPrefix(a)
         THEN Info("dot", FALSE, "Invalid address format", NoMetadata)
         ELSE Info("dot", TRUE, "Polkadot address", Base58Metadata("ss58", o))
    ELSE None

stage_algo(a, allowedNetworks) ==
    IF enabledNetwork({"algo"}, allowedNetworks) /\ pat_algo(a)
    THEN Info("algo", TRUE, "Algorand address",
              [NoMetadata EXCEPT !.keys = {"format"}, !.format = "base32"])
    ELSE None

stage_xlm(a, allowedNetworks) ==
    IF enabledNetwork({"xlm"}, allowedNetworks) /\ pat_xlm(a)
    THEN Info("xlm", TRUE, "Stellar address",
              [NoMetadata EXCEPT !.keys = {"format", "type"},
                                 !.format = "base32", !.type = "public"])
    ELSE None

\* address.toLowerCase().replace('bitcoincash:', '')
cashAddrPayload(a) ==
    LET l == toLowerCase(a)
    IN IF startsWith(l, Pfx_bitcoincash) THEN sliceFrom(l, Len(Pfx_bitcoincash)) ELSE l

stage_bch(a, allowedNetworks) ==
    IF /\ enabledNetwork({"bch"}, allowedNetworks)
       /\ pat_bch_cashAddr(a)
       /\ pat_bch_address(cashAddrPayload(a))
    THEN Info("bch", TRUE, "Bitcoin Cash CashAddr address",
              [NoMetadata EXCEPT
                  !.keys = {"format", "isTestnet", "printFormat", "electronicFormat"},
                  !.format = "CashAddr",
                  !.isTestnet = startsWith(cashAddrPayload(a), <<"p">>),
                  !.printFormat = Pfx_bitcoincash \o cashAddrPayload(a),
                  !.electronicFormat = cashAddrPayload(a)])
    ELSE None

\* The first stage, in the order of the source, that returns.
RECURSIVE firstReturn(_, _)
firstReturn(stages, i) ==
    IF i > Len(stages) THEN Info(NULL, FALSE, "Unknown address format", NoMetadata)
    ELSE IF stages[i].kind # "none" THEN stages[i]
    ELSE firstReturn(stages, i + 1)

\* The body of the try block, for a non-empty string a and the options o.
chain(a, o, force, env) ==
    LET allowedNetworks ==
            IF o.network.type = "array"
            THEN [i \in 1..Len(o.network.items) |-> o.network.items[i].s]
            ELSE <<>>
    IN firstReturn(<<stage_ns(a, o),
                     stage_evm(a, allowedNetworks, force, env),
                     stage_ican(a, o, allowedNetworks),
                     stage_btc(a, o, allowedNetworks),
                     stage_ltc(a, o, allowedNetworks),
                     stage_atom(a, allowedNetworks),
                     stage_ada(a, o, allowedNetworks),
                     stage_xrp(a, allowedNetworks),
                     stage_tron(a, o, allowedNetworks),
                     stage_sol(a, o, allowedNetworks),
                     stage_dot(a, o, allowedNetworks),
                     stage_algo(a, allowedNetworks),
                     stage_xlm(a, allowedNetworks),
                     stage_bch(a, allowedNetworks)>>, 1)

\* validateWalletAddress(address, options, forceChecksumValidation), on a
\* platform whose hash primitive works ("ok") or throws.
validateWalletAddress(addressArg, optionsArg, force, env) ==
    LET o == IF optionsArg.type = "undefined" THEN DefaultOptions ELSE optionsArg
        optionsError == validateOptions(o)
    IN IF optionsError.kind # "null" THEN optionsError
       ELSE IF o.type = "null"
       THEN Threw("TypeError: Cannot read properties of null (reading 'nsDomains')")
       ELSE IF addressArg.type # "string" \/ addressArg.str = <<>>
       THEN Info(NULL, FALSE, "Invalid input", NoMetadata)
       ELSE chain(addressArg.str, o, force, env)

\* ----------------------------------------------------- the callers' inputs

\* how many successive case flips the hex-address caller makes
MaxFlips == 2

\* The literal prefixes of the Bitcoin, Litecoin and Cardano patterns.
Pfx ==
    [ bc1 |-> <<"b","c","1">>,
      tb1 |-> <<"t","b","1">>,
      ltc1 |-> <<"l","t","c","1">>,
      tltc1 |-> <<"t","l","t","c","1">>,
      addr1 |-> <<"a","d","d","r","1">>,
      addr_test1 |-> <<"a","d","d","r","_","t","e","s","t","1">>,
      stake1 |-> <<"s","t","a","k","e","1">>,
      stake_test1 |-> <<"s","t","a","k","e","_","t","e","s","t","1">> ]

\* The prefixes the earlier families reserve.
ReservedPrefixes ==
    {<<"1">>, <<"3">>, Pfx.bc1, Pfx.tb1, <<"L">>, <<"M">>, Pfx.ltc1, Pfx.tltc1,
     Pfx.addr1, Pfx.addr_test1, Pfx.stake1, Pfx.stake_test1, <<"r">>, <<"T">>}
    \cup CosmosPrefixes

\* A reserved prefix filled up to a length the Solana and the Polkadot
\* patterns take, and to the lengths of the Cardano patterns.
FilledAddresses ==
    { Fill(p, n) : p \in ReservedPrefixes, n \in {34, 47} }
    \cup { Fill(Pfx.addr1, 103), Fill(Pfx.addr_test1, 108),
           Fill(Pfx.stake1, 59), Fill(Pfx.stake_test1, 64) }

EvmVectors ==
    {TestAddress.evm_checksummed, TestAddress.evm_lowercase, TestAddress.evm_badChecksum, TestAddress.evm_uppercase,
     TestAddress.evm2_checksummed, TestAddress.evm2_uppercase, TestAddress.evm_oneUpper, TestAddress.evm_digits}

IcanVectors ==
    {TestAddress.ican_cb, TestAddress.ican_ce, TestAddress.ican_ab, TestAddress.ican_AB, TestAddress.ican_mixed, TestAddress.ican_cb_bad}

TestVectors ==
    EvmVectors \cup IcanVectors \cup
    {TestAddress.evm_short, TestAddress.evm_invalid, toUpperCase(TestAddress.evm_lowercase), TestAddress.ican_cc,
     TestAddress.btc_legacy, TestAddress.btc_legacy_bad, TestAddress.btc_segwit, TestAddress.btc_segwit_bad, TestAddress.btc_native,
     TestAddress.btc_testnet, TestAddress.ltc_legacy, TestAddress.ltc_legacy_bad, TestAddress.ltc_segwit, TestAddress.ltc_segwit_bad,
     TestAddress.ltc_native, TestAddress.ltc_testnet, TestAddress.atom_cosmos, TestAddress.atom_osmo, TestAddress.ada_mainnet,
     TestAddress.ada_testnet, TestAddress.xrp, TestAddress.tron, TestAddress.tron_like, TestAddress.tron_short, TestAddress.sol, TestAddress.dot, TestAddress.algo,
     TestAddress.xlm, TestAddress.bch_prefixed, TestAddress.bch_bare, TestAddress.bch_bare0, TestAddress.ns_vitalik, TestAddress.ns_sub, TestAddress.ns_fox, TestAddress.ns_dots,
     TestAddress.invalid, TestAddress.blank}
    \cup { [TestAddress.algo EXCEPT ![1] = c] : c \in {"A", "G", "L", "M", "T", "7"} }
    \cup { [i \in 1..58 |-> c] : c \in {"A", "T", "2"} }
    \cup { [TestAddress.xlm EXCEPT ![2] = c] : c \in {"A", "T", "2"} }
    \cup { [TestAddress.bch_prefixed EXCEPT ![13] = "p"] }

\* What a caller passes as the address: strings, and values that are none.
Addresses ==
    { Str(s) : s \in TestVectors \cup FilledAddresses \cup {<<>>} }
    \cup { NonString(t) : t \in {"undefined", "null", "number", "object", "boolean"} }

\* s with the character at position i replaced by c
Replace(s, i, c) == [s EXCEPT ![i] = c]

\* s with the case of the letter at position i changed
FlipCaseAt(s, i) ==
    Replace(s, i, IF s[i] \in LowerSet THEN toUpperCaseChar(s[i])
                  ELSE toLowerCaseChar(s[i]))

\* The ICAN test vectors, and each with one character replaced by a hex digit.
IcanInputs ==
    IcanVectors \cup
    { Replace(v, i, c) : v \in IcanVectors, i \in 1..44, c \in HexAny }

Tri == {"undefined", "true", "false"}

NetworkChoices ==
    {NetUndefined, NetNull}
    \cup { Net(l) : l \in {<<>>, <<"evm">>, <<"eth">>, <<"btc">>, <<"ltc">>, <<"atom">>,
                           <<"ada">>, <<"xrp">>, <<"trx">>, <<"tron">>, <<"sol">>,
                           <<"dot">>, <<"algo">>, <<"xlm">>, <<"bch">>, <<"ican">>,
                           <<"xcb">>, <<"xce">>, <<"xab">>, <<"ns">>, <<"unknown">>,
                           <<"btc", "eth">>, <<"btc", "ltc">>} }

D_eth == <<"e","t","h">>
NsChoices ==
    {NsUndefined, Ns(<<>>), Ns(<<NsString(D_eth)>>),
     Ns(<<NsObject("string", D_eth, "false", NumUndefined, NumUndefined)>>),
     Ns(<<NsObject("string", D_eth, "true", Num(10), Num(5))>>),
     Ns(<<NsString(TestAddress.ns_vitalik), NsString(D_eth)>>)}

\* Options that break a rule of validateOptions, and options that are no object.
MalformedOptions ==
    {OptionsOfType("null"), OptionsOfType("zero"), OptionsOfType("string"),
     OptionsObject(NetNonArray, "undefined", "undefined", "undefined", NsUndefined),
     OptionsObject(NetWithNumber, "undefined", "undefined", "undefined", NsUndefined),
     OptionsObject(NetUndefined, "string", "undefined", "undefined", NsUndefined),
     OptionsObject(NetUndefined, "undefined", "string", "undefined", NsUndefined),
     OptionsObject(NetUndefined, "undefined", "undefined", "string", NsUndefined),
     OptionsObject(NetUndefined, "undefined", "undefined", "undefined", NsNonArray),
     OptionsObject(NetNonArray, "string", "string", "string", NsNonArray),
     OptionsObject(NetWithNumber, "string", "undefined", "undefined", NsUndefined),
     OptionsObject(NetUndefined, "string", "string", "undefined", NsUndefined),
     OptionsObject(NetUndefined, "undefined", "string", "string", NsUndefined),
     OptionsObject(NetUndefined, "true", "undefined", "string", NsNonArray),
     OptionsObject(NetNull, "false", "true", "true", [type |-> "null", items |-> <<>>]),
     OptionsObject(NetUndefined, "undefined", "undefined", "undefined",
                   Ns(<<NsString(D_eth), NsOther("number")>>)),
     OptionsObject(NetUndefined, "undefined", "undefined", "undefined",
                   Ns(<<NsObject("string", D_eth, "string", Num(0), NumUndefined)>>)),
     OptionsObject(NetUndefined, "undefined", "undefined", "undefined",
                   Ns(<<NsObject("string", D_eth, "true", NumFraction, Num(0))>>))}
    \cup { OptionsObject(NetUndefined, "undefined", "undefined", "undefined", Ns(<<e>>)) :
             e \in {NsString(<<" ">>), NsOther("number"), NsOther("null"),
                    NsObject("undefined", <<>>, "undefined", NumUndefined, NumUndefined),
                    NsObject("string", D_eth, "string", NumUndefined, NumUndefined),
                    NsObject("string", D_eth, "undefined", Num(0), NumUndefined),
                    NsObject("string", D_eth, "undefined", NumUndefined, NumFraction),
                    NsObject("string", D_eth, "undefined", Num(5), Num(10))} }

\* ------------------------------------------------------------- the calls

Init ==
    /\ fn = "none"
    /\ address = NonString("undefined")
    /\ options = OptionsOfType("undefined")
    /\ forceChecksumValidation = FALSE
    /\ platform = "ok"
    /\ result = None
    /\ flag = FALSE
    /\ returned = FALSE
    /\ flips = 0
    /\ seen = <<>>

\* No call is in progress and none has returned: the caller is about to call.
Idle == fn = "none"

\* Variant: the module caches the normalized nsDomains of the call before.
Call_cachedNsDomains(a, o, f, p, n) ==
    LET cached == IF fn = "validateWalletAddress" /\ o.type = "object"
                  THEN [o EXCEPT !.nsDomains = options.nsDomains] ELSE o
        r == validateWalletAddress(a, cached, f, p)
    IN /\ fn' = "validateWalletAddress"
       /\ address' = a
       /\ options' = o
       /\ forceChecksumValidation' = f
       /\ platform' = p
       /\ result' = r
       /\ returned' = (r.kind = "info")
       /\ flag' = FALSE
       /\ flips' = n
       /\ UNCHANGED seen
\* A call validateWalletAddress(a, o, f) and what it returns.
Call(a, o, f, p, n) ==
    LET r == validateWalletAddress(a, o, f, p)
    IN /\ fn' = "validateWalletAddress"
       /\ address' = a
       /\ options' = o
       /\ forceChecksumValidation' = f
       /\ platform' = p
       /\ result' = r
       /\ returned' = (r.kind = "info")
       /\ flag' = FALSE
       /\ flips' = n
       /\ UNCHANGED seen

\* The caller drops what the last call returned, and the call it has kept, and
\* goes on to its next call; the module keeps nothing from one call to the next.
NextCall ==
    /\ ~Idle
    /\ fn' = "none"
    /\ address' = NonString("undefined")
    /\ options' = OptionsOfType("undefined")
    /\ forceChecksumValidation' = FALSE
    /\ platform' = "ok"
    /\ result' = None
    /\ flag' = FALSE
    /\ returned' = FALSE
    /\ flips' = 0
    /\ seen' = <<>>

\* validateWalletAddress(address), validateWalletAddress(address, undefined, f)
ValidateDefault ==
    /\ Idle
    /\ \E a \in Addresses, f \in BOOLEAN :
          Call(a, OptionsOfType("undefined"), f, "ok", 0)

\* validateWalletAddress(address, {network, testnet, enabledLegacy}, f)
ValidateFiltered ==
    /\ Idle
    /\ \E a \in Addresses, n \in NetworkChoices, t \in Tri, l \in Tri, f \in BOOLEAN :
          Call(a, OptionsObject(n, t, l, "undefined", NsUndefined), f, "ok", 0)

\* validateWalletAddress(address, {network, emojiAllowed, nsDomains})
ValidateNs ==
    /\ Idle
    /\ \E a \in Addresses, ns \in NsChoices, e \in Tri,
          n \in {NetUndefined, Net(<<"ns">>), Net(<<"btc">>)} :
          Call(a, OptionsObject(n, "undefined", "undefined", e, ns), FALSE, "ok", 0)

\* validateWalletAddress(address, options) with options the types forbid
ValidateMalformed ==
    /\ Idle
    /\ \E a \in Addresses, o \in MalformedOptions : Call(a, o, FALSE, "ok", 0)

Next ==
    ValidateDefault \/ ValidateFiltered \/ ValidateNs \/ ValidateMalformed \/ NextCall

Spec == Init /\ [][Next]_vars

\* ---- the hex-address caller: checksummed test vectors and their case flips

EvmOptions == {OptionsOfType("undefined"), EmptyOptions}

ValidateEvm ==
    /\ Idle
    /\ \E a \in EvmVectors, o \in EvmOptions, f \in BOOLEAN :
          Call(Str(a), o, f, "ok", 0)

\* The caller changes the case of one letter and validates again.
FlipCase ==
    /\ fn = "validateWalletAddress"
    /\ flips < MaxFlips
    /\ \E i \in 1..Len(address.str) :
          /\ address.str[i] \in LowerSet \cup UpperSet
          /\ Call(Str(FlipCaseAt(address.str, i)), options, forceChecksumValidation,
                  "ok", flips + 1)

\* validateEVMChecksum(address, force), the exported function
CallEVMChecksum ==
    /\ fn = "validateWalletAddress"
    /\ address.type = "string"
    /\ platform = "ok"
    /\ fn' = "validateEVMChecksum"
    /\ flag' = validateEVMChecksum(address.str, forceChecksumValidation, "ok").value
    /\ returned' = TRUE
    /\ result' = None
    /\ UNCHANGED <<address, options, forceChecksumValidation, platform, flips, seen>>

\* The call on a platform whose hash primitive throws.
ValidateEvmWithoutHash ==
    /\ Idle
    /\ \E a \in EvmVectors \cup {TestAddress.evm_short, TestAddress.btc_legacy,
                                 TestAddress.btc_legacy_bad, TestAddress.ltc_segwit_bad},
          f \in BOOLEAN :
          Call(Str(a), OptionsOfType("undefined"), f, "keccakThrows", MaxFlips)

NextEVM ==
    ValidateEvm \/ FlipCase \/ CallEVMChecksum \/ ValidateEvmWithoutHash \/ NextCall

SpecEVM == Init /\ [][NextEVM]_vars

\* ---- the ICAN caller: test vectors with one character replaced

IcanOptions ==
    {OptionsOfType("undefined"),
     OptionsObject(NetUndefined, "true", "undefined", "undefined", NsUndefined),
     OptionsObject(Net(<<"xcb">>), "false", "undefined", "undefined", NsUndefined)}

ValidateIcan ==
    /\ Idle
    /\ \E a \in IcanInputs, o \in IcanOptions : Call(Str(a), o, FALSE, "ok", 0)

\* validateICANChecksum(address), the exported function, on the ICAN inputs
\* and on strings that are no ICAN addresses
CallICANChecksum ==
    /\ Idle
    /\ \E a \in IcanInputs \cup
                {<<>>, <<"a","b">>, <<"c","b","1">>, <<"c","b","$","$">>,
                 <<"$","$","$","$">>, <<"-","1","2","3">>, <<" ","1","2","3">>,
                 [i \in 1..12 |-> "$"], SubSeq(TestAddress.ican_cb, 1, 43),
                 TestAddress.ican_cb \o <<"!">>} :
          /\ fn' = "validateICANChecksum"
          /\ address' = Str(a)
          /\ flag' = validateICANChecksum(a)
          /\ returned' = icanChecksum(a).terminates
          /\ result' = None
          /\ UNCHANGED <<options, forceChecksumValidation, platform, flips, seen>>

NextICAN == ValidateIcan \/ CallICANChecksum \/ NextCall

SpecICAN == Init /\ [][NextICAN]_vars

\* ---- the Name Service caller: domains under configured suffixes

\* Domains like those of the tests' 'NS Domains' blocks, with labels and totals
\* at and over the limits, and two addresses that are no domains.
NsAddresses ==
    {TestAddress.ns_sub, TestAddress.ns_fox, TestAddress.ns_dots,
     <<"v","i","t","a","l","i","k",".","e","t","h">>,
     <<"a",".","f","o","o",".","e","t","h">>,
     <<"b",".","a",".","f","o","o",".","e","t","h">>,
     <<"f","o","o",".","e","t","h">>,
     <<"e","t","h">>,
     <<"V","i","t","a","l","i","k",".","E","T","H">>,
     <<" ","v","i","t","a","l","i","k",".","e","t","h">>,
     <<"v","i","t","a","l","i","k",".","e","t","h",".">>,
     <<"v","i","t","a","_","l","i","k",".","e","t","h">>,
     <<"a","b","c","d","e","f",".","e","t","h">>,
     <<"a"," ","b",".","e","t","h">>,
     <<".","e","t","h">>,
     <<".",".",".">>,
     <<"x",".","c","o","m">>,
     <<"U+1F98A","_",".","e","t","h">>,
     <<"U+1F3FB",".","e","t","h">>,
     <<"U+00A9",".","e","t","h">>,
     [i \in 1..64 |-> "a"] \o <<".","e","t","h">>,
     [i \in 1..256 |-> "a"] \o <<".","e","t","h">>,
     TestAddress.btc_native, TestAddress.invalid}

\* Values of options.nsDomains that validateOptions accepts.
NsConfigs ==
    LET foo_eth == <<"f","o","o",".","e","t","h">>
    IN { Ns(l) : l \in
         {<<NsString(D_eth)>>,
          <<NsString(<<"E","T","H">>)>>,
          <<NsString(<<" ","e","t","h","."," ">>)>>,
          <<NsString(<<".">>)>>,
          <<NsObject("string", D_eth, "false", NumUndefined, NumUndefined)>>,
          <<NsObject("string", D_eth, "true", NumUndefined, NumUndefined)>>,
          <<NsObject("string", D_eth, "undefined", Num(10), Num(5))>>,
          <<NsObject("string", D_eth, "undefined", Num(10), NumUndefined)>>,
          <<NsObject("string", D_eth, "undefined", NumUndefined, Num(4))>>,
          <<NsObject("string", D_eth, "undefined", NumUndefined, Num(300))>>,
          <<NsString(D_eth), NsString(foo_eth)>>,
          <<NsString(foo_eth), NsString(D_eth)>>,
          <<NsObject("string", D_eth, "false", Num(10), Num(5)),
            NsObject("string", foo_eth, "true", NumUndefined, NumUndefined)>>,
          <<NsObject("string", foo_eth, "true", NumUndefined, NumUndefined),
            NsObject("string", D_eth, "false", Num(10), Num(5))>>} }

\* validateWalletAddress(address, {emojiAllowed, nsDomains})
ValidateNsDomain ==
    /\ Idle
    /\ \E a \in NsAddresses, c \in NsConfigs, e \in Tri :
          Call(Str(a), OptionsObject(NetUndefined, "undefined", "undefined", e, c),
               FALSE, "ok", 0)

\* The caller keeps the arguments of the call and what it returned.
Remember ==
    /\ fn = "validateWalletAddress"
    /\ seen = <<>>
    /\ seen' = <<[address |-> address, options |-> options,
                  forceChecksumValidation |-> forceChecksumValidation,
                  result |-> result, interleaved |-> FALSE]>>
    /\ UNCHANGED <<fn, address, options, forceChecksumValidation, platform, result,
                   flag, returned, flips>>

\* The caller validates the same address under other nsDomains.
ValidateOther ==
    /\ fn = "validateWalletAddress"
    /\ seen # <<>>
    /\ \E c \in NsConfigs \ {seen[1].options.nsDomains} :
          /\ fn' = "validateWalletAddress"
          /\ address' = address
          /\ options' = [seen[1].options EXCEPT !.nsDomains = c]
          /\ result' = validateWalletAddress(address, options', forceChecksumValidation,
                                             platform)
          /\ returned' = (result'.kind = "info")
    /\ seen' = <<[seen[1] EXCEPT !.interleaved = TRUE]>>
    /\ UNCHANGED <<forceChecksumValidation, platform, flag, flips>>

\* The caller makes the call it has kept once more.
Repeat ==
    /\ fn = "validateWalletAddress"
    /\ seen # <<>>
    /\ Call(seen[1].address, seen[1].options, seen[1].forceChecksumValidation,
            platform, flips)

NextNS == ValidateNsDomain \/ Remember \/ ValidateOther \/ Repeat \/ NextCall

SpecNS == Init /\ [][NextNS]_vars

\* ------------------------------------------------------------ the claims

\* The last call was validateWalletAddress.
Validated == fn = "validateWalletAddress"
\* The options the call works with: the default when the argument is omitted.
Effective == IF options.type = "undefined" THEN DefaultOptions ELSE options
\* The options pass validateOptions and are not null.
WellFormedOptions == validateOptions(Effective).kind = "null" /\ options.type # "null"
\* options.network as the list the stages are gated by
AllowList ==
    IF Effective.network.type = "array"
    THEN [i \in 1..Len(Effective.network.items) |-> Effective.network.items[i].s]
    ELSE <<>>
InAllowList(n) == \E i \in 1..Len(AllowList) : AllowList[i] = n
\* The documented aliases of a network identifier.
Aliases(n) ==
    CASE n = "evm" -> {"eth", "base", "pol"}
      [] n = "trx" -> {"tron"}
      [] n \in {"xcb", "xce", "xab"} -> {"ican"}
      [] OTHER -> {}
TestnetOff == Effective.testnet \in {"undefined", "false"}
TestnetRejected(n) ==
    /\ result.network = n
    /\ ~result.isValid
    /\ result.description = "Testnet address not allowed"

\* 0x followed by 40 hex digits
IsHexAddress(s) == MatchPrefixed(s, {<<"0","x">>}, HexAny, 40, 40)
HasLower(s) == \E i \in 1..Len(s) : s[i] \in LowerSet
HasUpper(s) == \E i \in 1..Len(s) : s[i] \in UpperSet
MixedCase(s) == HasLower(s) /\ HasUpper(s)

\* C1: validateWalletAddress never raises: whatever the address and the
\* options (absent, null, a non-object, an object with wrong field types, a
\* well-formed object), the call returns a NetworkInfo record.
C1_NeverRaises == Validated => result.kind = "info" /\ returned

\* C2: with testnet false or absent, every input that matches the tb1, the
\* tltc1, the addr_test1 or the stake_test1 pattern (its family admitted by
\* the allow-list), and every result whose network is 'xab', is invalid with
\* the description 'Testnet address not allowed' and the family's network.
C2_TestnetGating ==
    (Validated /\ WellFormedOptions /\ TestnetOff /\ address.type = "string") =>
        /\ result.network = "xab" => TestnetRejected("xab")
        /\ ( /\ pat_btc_nativeSegwit(address.str)
             /\ startsWith(address.str, Pfx.tb1)
             /\ enabledNetwork({"btc"}, AllowList) ) => TestnetRejected("btc")
        /\ ( /\ pat_ltc_nativeSegwit(address.str)
             /\ startsWith(address.str, Pfx.tltc1)
             /\ enabledNetwork({"ltc"}, AllowList) ) => TestnetRejected("ltc")
        /\ ( /\ pat_ada_testnet(address.str) \/ pat_ada_stakeTestnet(address.str)
             /\ enabledNetwork({"ada"}, AllowList) ) => TestnetRejected("ada")

\* C3: with a non-empty allow-list, a chain recognizer's result names a
\* network only if the list holds that network's identifier or a documented
\* alias of it; a list of only 'xcb' never yields 'xce' or 'xab'.
C3_AllowListMembership ==
    (Validated /\ WellFormedOptions /\ Len(AllowList) > 0
       /\ result.network \notin {NULL, "ns"}) =>
        \/ InAllowList(result.network)
        \/ \E n \in Aliases(result.network) : InAllowList(n)

\* C4: an address that is valid for network X without an allow-list is not
\* valid under any non-empty allow-list that holds neither X nor an alias of X.
C4_AllowListExclusion ==
    (Validated /\ WellFormedOptions /\ Len(AllowList) > 0 /\ result.isValid) =>
        LET open == validateWalletAddress(
                        address, [Effective EXCEPT !.network = NetUndefined],
                        forceChecksumValidation, platform)
        IN ~( /\ open.isValid
              /\ ~InAllowList(open.network)
              /\ \A n \in Aliases(open.network) : ~InAllowList(n) )

\* C5: options that omit enabledLegacy give the result of the same options
\* with enabledLegacy: true; a legacy Bitcoin or Litecoin address that
\* decodes is valid with format 'Legacy'.
C5_EnabledLegacyDefault ==
    (Validated /\ WellFormedOptions /\ options.type = "object"
       /\ options.enabledLegacy = "undefined") =>
        /\ result = validateWalletAddress(
                        address, [options EXCEPT !.enabledLegacy = "true"],
                        forceChecksumValidation, platform)
        /\ ( /\ address.str \in {TestAddress.btc_legacy, TestAddress.ltc_legacy}
             /\ Len(AllowList) = 0
             /\ Effective.nsDomains.items = <<>> ) =>
               /\ result.network \in {"btc", "ltc"}
               /\ result.isValid
               /\ result.metadata.format = "Legacy"

\* C6 as stated: an input that begins with a prefix reserved by an earlier
\* family is never given the network 'sol' or 'dot', whatever the options.
C6_ReservedPrefixExclusion ==
    (Validated /\ result.kind = "info" /\ address.type = "string"
       /\ \E p \in ReservedPrefixes : startsWith(address.str, p)) =>
        result.network \notin {"sol", "dot"}

\* C6 as amended: an input that begins with a prefix of the exclusion list
\* (cosmos, osmo, axelar, juno, stars, r, bc1, tb1, ltc1, tltc1) is never
\* valid as 'sol' or 'dot': when it is given one of these networks, the
\* result is invalid with the description 'Invalid address format'.
C6_ConflictPrefixNeverValid ==
    (Validated /\ result.kind = "info" /\ address.type = "string"
       /\ \E p \in ConflictPrefixes : startsWith(address.str, p)
       /\ result.network \in {"sol", "dot"}) =>
        ~result.isValid /\ result.description = "Invalid address format"

\* An input with a conflicting prefix reached the Solana stage and was rejected.
C6_Witness ==
    /\ Validated
    /\ address = Str(Fill(<<"r">>, 34))
    /\ result.network = "sol"
    /\ ~result.isValid

\* The rule of the mixed-case checksum, stated per position: a letter is
\* uppercase if the hash's nibble there exceeds 7 and lowercase otherwise.
ChecksumRule(s) ==
    LET body == sliceFrom(s, 2)
        hash == keccak256Hex(toLowerCase(body))
    IN \A i \in 1..40 :
          body[i] \in LowerSet \cup UpperSet =>
              IF HexValue(hash[i]) > 7 THEN body[i] \in UpperSet
              ELSE body[i] \in LowerSet

\* C7: for 0x + 40 hex digits on which the check is not skipped (mixed-case
\* body, or forceChecksum for any casing), isChecksumValid is true exactly
\* when every letter has the case the hash's nibble asks for, and isValid
\* equals isChecksumValid; the exported validateEVMChecksum says the same.
C7_ChecksumRule ==
    ( /\ fn \in {"validateWalletAddress", "validateEVMChecksum"}
      /\ platform = "ok"
      /\ IsHexAddress(address.str)
      /\ MixedCase(sliceFrom(address.str, 2)) \/ forceChecksumValidation ) =>
        /\ fn = "validateEVMChecksum" => (flag <=> ChecksumRule(address.str))
        /\ fn = "validateWalletAddress" =>
              /\ result.network = "evm"
              /\ result.metadata.isChecksumValid <=> ChecksumRule(address.str)
              /\ result.isValid = result.metadata.isChecksumValid

\* A forced check rejected an all-lowercase address, and a mixed-case address
\* passed the check.
C7_Witness ==
    /\ Validated
    /\ \/ /\ forceChecksumValidation
          /\ address = Str(TestAddress.evm_lowercase)
          /\ ~result.isValid
       \/ /\ address = Str(TestAddress.evm2_checksummed)
          /\ flips = 0
          /\ result.isValid

\* C8: without forceChecksum, 0x + 40 hex digits whose letters are all
\* lowercase, or all uppercase, are network 'evm', valid, isChecksumValid.
C8_SingleCaseSkip ==
    ( /\ Validated
      /\ platform = "ok"
      /\ ~forceChecksumValidation
      /\ IsHexAddress(address.str)
      /\ ~MixedCase(sliceFrom(address.str, 2)) ) =>
        /\ result.network = "evm"
        /\ result.isValid
        /\ result.metadata.isChecksumValid

\* A step in which the caller changes the case of one letter of the body of a
\* mixed-case address that has just been found valid under the default
\* options, and validates again.
BodyCaseFlip ==
    /\ Validated
    /\ options.type = "undefined"
    /\ ~forceChecksumValidation
    /\ platform = "ok"
    /\ IsHexAddress(address.str)
    /\ MixedCase(sliceFrom(address.str, 2))
    /\ result.isValid /\ result.metadata.isChecksumValid
    /\ fn' = "validateWalletAddress"
    /\ options' = options
    /\ forceChecksumValidation' = forceChecksumValidation
    /\ platform' = platform
    /\ \E i \in 3..42 : /\ address.str[i] \in LowerSet \cup UpperSet
                        /\ address' = Str(FlipCaseAt(address.str, i))

FlipRejected ==
    /\ result'.network = "evm"
    /\ ~result'.isValid
    /\ ~result'.metadata.isChecksumValid

\* C9 as stated: changing the case of any one letter of a valid mixed-case
\* address gives an invalid result.
C9_SingleFlipDetected == [][BodyCaseFlip => FlipRejected]_vars

\* C9 as amended: changing the case of any one letter of a valid mixed-case
\* address gives an invalid result, unless the change leaves the body without
\* an uppercase letter (the all-lowercase address then skips the check).
C9_SingleFlipDetectedUnlessLowercase ==
    [][(BodyCaseFlip /\ HasUpper(sliceFrom(address'.str, 2))) => FlipRejected]_vars

\* One letter of a valid checksummed address was flipped and the result is
\* invalid.
C9_Witness ==
    /\ Validated
    /\ flips = 1
    /\ options.type = "undefined"
    /\ ~forceChecksumValidation
    /\ address = Str(FlipCaseAt(TestAddress.evm_checksummed, 4))
    /\ result.network = "evm"
    /\ ~result.isValid

\* The integer the uppercased address writes, with its first four characters
\* moved to the end and A=10 ... Z=35, modulo 97, digit by digit.
RECURSIVE mod97(_, _)
mod97(s, acc) ==
    IF s = <<>> THEN acc
    ELSE IF Head(s) \in UpperSet
    THEN mod97(Tail(s), (acc * 100 + IndexOf(UpperLetters, Head(s)) + 9) % 97)
    ELSE mod97(Tail(s), (acc * 10 + DigitValue(Head(s))) % 97)

Mod97Reference(s) ==
    mod97(sliceFrom(toUpperCase(s), 4) \o SubSeq(toUpperCase(s), 1, 4), 0)

\* C10: on every string of the ICAN pattern, validateICANChecksum is true
\* exactly when the whole integer is congruent to 1 modulo 97; the 9-digit
\* chunking with its carried remainder does not change the answer.
C10_Mod97Reference ==
    (address.type = "string" /\ pat_ican(address.str)) =>
        /\ fn = "validateICANChecksum" =>
              returned /\ (flag <=> Mod97Reference(address.str) = 1)
        /\ (Validated /\ "isChecksumValid" \in result.metadata.keys) =>
              (result.metadata.isChecksumValid <=> Mod97Reference(address.str) = 1)

\* The exported function accepted a valid address and rejected one with a
\* replaced digit.
C10_Witness ==
    /\ fn = "validateICANChecksum"
    /\ \/ address = Str(TestAddress.ican_cb) /\ flag
       \/ address = Str(Replace(TestAddress.ican_ce, 44, "7")) /\ ~flag

\* C11 as stated: an accepted ICAN address with any one hex digit replaced by
\* a different hex digit (a decimal digit by a letter and the reverse
\* included) is rejected by validateICANChecksum.
C11_SingleDigitDetection ==
    ( /\ fn = "validateICANChecksum"
      /\ pat_ican(address.str)
      /\ flag ) =>
        \A i \in 1..44 : \A c \in HexLower \ {toLowerCaseChar(address.str[i])} :
            ~validateICANChecksum(Replace(address.str, i, c))

\* C11 as amended: an accepted ICAN address with one decimal digit replaced
\* by a different decimal digit, or one letter replaced by a different
\* letter a-f, is rejected by validateICANChecksum.
C11_SameKindDetection ==
    LET SameKind(s, i, c) ==
            \/ s[i] \in DigitSet /\ c \in DigitSet
            \/ s[i] \notin DigitSet /\ c \notin DigitSet
    IN
    ( /\ fn = "validateICANChecksum"
      /\ pat_ican(address.str)
      /\ flag ) =>
        \A i \in 1..44 : \A c \in HexLower \ {toLowerCaseChar(address.str[i])} :
            SameKind(address.str, i, c) =>
                ~validateICANChecksum(Replace(address.str, i, c))

\* An accepted address stays accepted when the letter at position 14 becomes
\* a decimal digit, and is rejected when it becomes another letter.
C11_Witness ==
    /\ fn = "validateICANChecksum"
    /\ address = Str(TestAddress.ican_cb)
    /\ flag
    /\ validateICANChecksum(Replace(address.str, 14, "1"))
    /\ ~validateICANChecksum(Replace(address.str, 14, "b"))

\* C12: an address that is no string, is empty, or is only white space gives,
\* with well-formed options, network null, isValid false and the description
\* 'Invalid input'.
C12_InvalidInput ==
    ( /\ Validated
      /\ WellFormedOptions
      /\ \/ address.type # "string"
         \/ Blank(address.str) ) =>
        /\ result.kind = "info"
        /\ result.network = NULL
        /\ ~result.isValid
        /\ result.description = "Invalid input"

\* C13: options that break a field rule give, for every address, network
\* null, isValid false and an 'Invalid options:' description of the first
\* broken rule in the order network, testnet, enabledLegacy, emojiAllowed,
\* nsDomains.
C13_MalformedOptionsRejected ==
    LET LengthOk(v) == v.type = "undefined" \/ (v.type = "number" /\ v.int /\ v.n > 0)
        EntryOk(e) ==
            \/ e.type = "string" /\ ~AllIn(e.domain, WhiteSpace)
            \/ /\ e.type = "object"
               /\ e.domainType = "string" /\ ~AllIn(e.domain, WhiteSpace)
               /\ e.emojiAllowed \in Tri
               /\ LengthOk(e.maxTotalLength) /\ LengthOk(e.maxLabelLength)
               /\ ( /\ e.maxTotalLength.type = "number"
                    /\ e.maxLabelLength.type = "number" ) =>
                      e.maxLabelLength.n <= e.maxTotalLength.n
        NetworkOk(n) ==
            \/ n.type \in {"undefined", "null"}
            \/ n.type = "array" /\ \A i \in 1..Len(n.items) : n.items[i].type = "string"
        NsDomainsOk(d) ==
            \/ d.type = "undefined"
            \/ d.type = "array" /\ \A i \in 1..Len(d.items) : EntryOk(d.items[i])
        FirstBroken(o) ==
            IF ~NetworkOk(o.network) THEN "network"
            ELSE IF o.testnet \notin Tri THEN "testnet"
            ELSE IF o.enabledLegacy \notin Tri THEN "enabledLegacy"
            ELSE IF o.emojiAllowed \notin Tri THEN "emojiAllowed"
            ELSE IF ~NsDomainsOk(o.nsDomains) THEN "nsDomains"
            ELSE "none"
        RuleOf(description) ==
            CASE description \in
                   {"Invalid options: network must be an array or null",
                    "Invalid options: network array must contain only strings"}
                   -> "network"
              [] description = "Invalid options: testnet must be a boolean" -> "testnet"
              [] description = "Invalid options: enabledLegacy must be a boolean"
                   -> "enabledLegacy"
              [] description = "Invalid options: emojiAllowed must be a boolean"
                   -> "emojiAllowed"
              [] description \in
                   {"Invalid options: nsDomains must be an array",
                    "Invalid options: nsDomain strings must be non-empty",
                    "Invalid options: nsDomains entries must be strings or objects",
                    "Invalid options: nsDomain objects must include a domain string",
                    "Invalid options: nsDomain emojiAllowed must be a boolean",
                    "Invalid options: nsDomain maxTotalLength must be a positive integer",
                    "Invalid options: nsDomain maxLabelLength must be a positive integer",
                    "Invalid options: nsDomain maxLabelLength cannot exceed maxTotalLength"}
                   -> "nsDomains"
              [] OTHER -> "none"
    IN (Validated /\ options.type = "object" /\ FirstBroken(options) # "none") =>
          /\ result.kind = "info"
          /\ result.network = NULL
          /\ ~result.isValid
          /\ RuleOf(result.description) = FirstBroken(options)

\* Options with a non-boolean testnet and a non-boolean enabledLegacy were
\* rejected for testnet, whatever the address.
C13_Witness ==
    /\ Validated
    /\ address.type # "string"
    /\ options = OptionsObject(NetUndefined, "string", "string", "undefined", NsUndefined)
    /\ result.description = "Invalid options: testnet must be a boolean"

C15_AllowListGatesNameService ==
    ( /\ Validated
      /\ WellFormedOptions
      /\ Len(AllowList) > 0
      /\ ~InAllowList("ns") ) =>
        result.network # "ns"

\* C16: with enabledLegacy false, an address of the Bitcoin (Litecoin) legacy
\* pattern, its family admitted by the allow-list, is reported invalid under
\* 'btc' ('ltc') and never under another network or as unknown.
C16_LegacyRejectionKeepsNetwork ==
    ( /\ Validated
      /\ WellFormedOptions
      /\ Effective.enabledLegacy = "false"
      /\ Effective.nsDomains.items = <<>>
      /\ address.type = "string" ) =>
        /\ ( /\ pat_btc_legacy(address.str)
             /\ enabledNetwork({"btc"}, AllowList) ) =>
               result.network = "btc" /\ ~result.isValid
        /\ ( /\ pat_ltc_legacy(address.str)
             /\ enabledNetwork({"ltc"}, AllowList) ) =>
               result.network = "ltc" /\ ~result.isValid

\* C17: for a string of the ICAN pattern, network, isValid, isTestnet,
\* isEnterprise, printFormat and electronicFormat are the same for every
\* letter-casing of the string.
C17_IcanCaseInsensitive ==
    LET Same(r, s) ==
            /\ r.network = s.network
            /\ r.isValid = s.isValid
            /\ r.metadata.isTestnet = s.metadata.isTestnet
            /\ r.metadata.isEnterprise = s.metadata.isEnterprise
            /\ r.metadata.printFormat = s.metadata.printFormat
            /\ r.metadata.electronicFormat = s.metadata.electronicFormat
        Recased(a) ==
            validateWalletAddress(Str(a), options, forceChecksumValidation, platform)
    IN (Validated /\ address.type = "string" /\ pat_ican(address.str)) =>
          /\ Same(result, Recased(toLowerCase(address.str)))
          /\ Same(result, Recased(toUpperCase(address.str)))

\* C18: for an ICAN address that yields metadata, electronicFormat is the
\* uppercased input, printFormat is that string in eleven groups of four
\* joined by single non-breaking spaces, and printFormat without the
\* non-breaking spaces is electronicFormat.
C18_IcanDisplayFormats ==
    ( /\ Validated
      /\ address.type = "string"
      /\ pat_ican(address.str)
      /\ "printFormat" \in result.metadata.keys ) =>
        LET upper == toUpperCase(address.str)
            pf == result.metadata.printFormat
            NotSpace(c) == c # "U+00A0"
        IN /\ result.metadata.electronicFormat = upper
           /\ Len(pf) = 54
           /\ \A k \in 1..54 :
                 pf[k] = IF k % 5 = 0 THEN "U+00A0" ELSE upper[k - (k \div 5)]
           /\ SelectSeq(pf, NotSpace) = result.metadata.electronicFormat

\* A mixed-case ICAN address was validated and got its display formats.
C18_Witness ==
    /\ Validated
    /\ address = Str(TestAddress.ican_mixed)
    /\ result.isValid
    /\ "printFormat" \in result.metadata.keys
    /\ Len(result.metadata.printFormat) = 54

\* C19: under default options, a 42-character CashAddr payload that starts
\* with q or p, with or without 'bitcoincash:' before it, gives network
\* 'bch', valid, electronicFormat the payload and printFormat
\* 'bitcoincash:' + payload.
C19_CashAddrPrefixOptional ==
    ( /\ Validated
      /\ options.type = "undefined"
      /\ address.type = "string"
      /\ pat_bch_cashAddr(address.str)
      /\ pat_bch_address(cashAddrPayload(address.str)) ) =>
        /\ result.network = "bch"
        /\ result.isValid
        /\ result.metadata.electronicFormat = cashAddrPayload(address.str)
        /\ result.metadata.printFormat = Pfx_bitcoincash \o cashAddrPayload(address.str)

C22_NsRejectionOrder ==
    LET a == address.str
        norm == toLowerCase(stripTrailingDots(trim(a)))
        entries == Effective.nsDomains.items
        Suffix(i) == toLowerCase(stripTrailingDots(trim(entries[i].domain)))
        hit == { i \in 1..Len(entries) :
                   norm = Suffix(i) \/ endsWith(norm, <<".">> \o Suffix(i)) }
        e == entries[CHOOSE i \in hit : \A j \in hit : i <= j]
        total == IF e.maxTotalLength.type = "undefined" THEN 255 ELSE e.maxTotalLength.n
        label == IF e.maxLabelLength.type = "undefined" THEN 63 ELSE e.maxLabelLength.n
        allowed == IF e.emojiAllowed # "undefined" THEN e.emojiAllowed
                   ELSE IF Effective.emojiAllowed # "undefined" THEN Effective.emojiAllowed
                   ELSE "true"
        Fails(k) ==
            CASE k = 1 -> JsLength(norm) > total
              [] k = 2 -> \E i \in 1..Len(split(norm)) : JsLength(split(norm)[i]) > label
              [] k = 3 -> \/ \E i \in 1..Len(a) : a[i] \in WhiteSpace
                          \/ includesDotDot(a)
                          \/ a[1] = "." \/ a[Len(a)] = "."
              [] k = 4 -> ~validPattern(a)
              [] k = 5 -> allowed = "false" /\ \E i \in 1..Len(a) : a[i] \in ExtendedPictographic
        DescriptionOf(k) ==
            CASE k = 1 -> "NS domain exceeds maximum total length of N characters"
              [] k = 2 -> "NS domain label exceeds maximum length of N characters"
              [] k \in {3, 4} -> "Invalid NS domain format"
              [] k = 5 -> IF e.emojiAllowed # "undefined"
                          THEN "Emoji characters are disabled for NS domain D"
                          ELSE "Emoji characters are disabled in NS domains"
    IN ( /\ Validated /\ WellFormedOptions
         /\ address.type = "string" /\ address.str # <<>>
         /\ Effective.nsDomains.type = "array"
         /\ hit # {} ) =>
           \A k \in 1..5 :
               (Fails(k) /\ \A j \in 1..(k - 1) : ~Fails(j)) =>
                   /\ result.network = "ns"
                   /\ ~result.isValid
                   /\ result.description = DescriptionOf(k)
                   /\ k = 1 => result.descNum = total
                   /\ k = 2 => result.descNum = label

\* A 256-character label under the default limits: both lengths are exceeded
\* and the total length is reported.
C22_Witness ==
    /\ Validated
    /\ address.type = "string"
    /\ Len(address.str) = 260
    /\ options.nsDomains = Ns(<<NsString(D_eth)>>)
    /\ result.network = "ns"
    /\ result.description = "NS domain exceeds maximum total length of N characters"
    /\ result.descNum = 255

\* C23: the emoji allowance of a matched entry is its own emojiAllowed when
\* defined, else the global emojiAllowed (default true); a well-formed domain
\* that contains an emoji is rejected exactly when the allowance is false,
\* naming the domain when the entry defines emojiAllowed and with the general
\* message otherwise.
C23_EffectiveEmojiAllowance ==
    LET a == address.str
        norm == toLowerCase(stripTrailingDots(trim(a)))
        entries == Effective.nsDomains.items
        Suffix(i) == toLowerCase(stripTrailingDots(trim(entries[i].domain)))
        hit == { i \in 1..Len(entries) :
                   norm = Suffix(i) \/ endsWith(norm, <<".">> \o Suffix(i)) }
        e == entries[CHOOSE i \in hit : \A j \in hit : i <= j]
        total == IF e.maxTotalLength.type = "undefined" THEN 255 ELSE e.maxTotalLength.n
        label == IF e.maxLabelLength.type = "undefined" THEN 63 ELSE e.maxLabelLength.n
        allowed == IF e.emojiAllowed # "undefined" THEN e.emojiAllowed
                   ELSE IF Effective.emojiAllowed # "undefined" THEN Effective.emojiAllowed
                   ELSE "true"
        WellFormed ==
            /\ JsLength(norm) <= total
            /\ \A i \in 1..Len(split(norm)) : JsLength(split(norm)[i]) <= label
            /\ \A i \in 1..Len(a) : a[i] \notin WhiteSpace
            /\ ~includesDotDot(a) /\ a[1] # "." /\ a[Len(a)] # "."
            /\ validPattern(a)
        HasEmoji == \E i \in 1..Len(a) : a[i] \in EmojiPresentation \cup ExtendedPictographic
    IN ( /\ Validated /\ WellFormedOptions
         /\ address.type = "string" /\ address.str # <<>>
         /\ Effective.nsDomains.type = "array"
         /\ hit # {}
         /\ WellFormed /\ HasEmoji ) =>
           /\ result.network = "ns"
           /\ result.isValid <=> allowed = "true"
           /\ (allowed = "false" /\ e.emojiAllowed # "undefined") =>
                 /\ result.description = "Emoji characters are disabled for NS domain D"
                 /\ result.descStr = stripTrailingDots(trim(e.domain))
           /\ (allowed = "false" /\ e.emojiAllowed = "undefined") =>
                 result.description = "Emoji characters are disabled in NS domains"

\* C24: for every accepted Name Service domain, metadata.isSubdomain is true
\* exactly when the address has more than one label beyond those of the
\* matched suffix: under 'foo.eth', 'a.foo.eth' is no subdomain and
\* 'b.a.foo.eth' is one.
C24_SubdomainFlag ==
    LET a == address.str
        norm == toLowerCase(stripTrailingDots(trim(a)))
        entries == Effective.nsDomains.items
        Suffix(i) == toLowerCase(stripTrailingDots(trim(entries[i].domain)))
        hit == { i \in 1..Len(entries) :
                   norm = Suffix(i) \/ endsWith(norm, <<".">> \o Suffix(i)) }
        matched == Suffix(CHOOSE i \in hit : \A j \in hit : i <= j)
        Dots(s) == Cardinality({ i \in 1..Len(s) : s[i] = "." })
    IN ( /\ Validated
         /\ result.kind = "info" /\ result.network = "ns" /\ result.isValid ) =>
           /\ hit # {}
           /\ result.metadata.isSubdomain <=> (Dots(a) + 1) - (Dots(matched) + 1) > 1

\* 'b.a.foo.eth' under the suffix 'foo.eth' is a subdomain.
C24_Witness ==
    /\ Validated
    /\ address = Str(<<"b",".","a",".","f","o","o",".","e","t","h">>)
    /\ options.nsDomains.type = "array"
    /\ options.nsDomains.items[1].domain = <<"f","o","o",".","e","t","h">>
    /\ result.network = "ns"
    /\ result.isValid
    /\ result.metadata.isSubdomain

\* C25: when several nsDomains entries match the address (it equals the
\* suffix or ends with '.' + suffix, case ignored), the limits, the emoji
\* allowance, metadata.format and the subdomain flag come from the first
\* matching entry of the list, even where a later one is more specific; when
\* none matches, the Name Service stage reports nothing and the network
\* recognizers decide.
C25_FirstMatchingSuffix ==
    LET a == address.str
        norm == toLowerCase(stripTrailingDots(trim(a)))
        entries == Effective.nsDomains.items
        Trimmed(i) == stripTrailingDots(trim(entries[i].domain))
        hit == { i \in 1..Len(entries) :
                   \/ norm = toLowerCase(Trimmed(i))
                   \/ endsWith(norm, <<".">> \o toLowerCase(Trimmed(i))) }
        first == CHOOSE i \in hit : \A j \in hit : i <= j
        e == entries[first]
        total == IF e.maxTotalLength.type = "undefined" THEN 255 ELSE e.maxTotalLength.n
        label == IF e.maxLabelLength.type = "undefined" THEN 63 ELSE e.maxLabelLength.n
        allowed == IF e.emojiAllowed # "undefined" THEN e.emojiAllowed
                   ELSE IF Effective.emojiAllowed # "undefined" THEN Effective.emojiAllowed
                   ELSE "true"
        Dots(s) == Cardinality({ i \in 1..Len(s) : s[i] = "." })
    IN ( /\ Validated /\ WellFormedOptions
         /\ address.type = "string" /\ address.str # <<>>
         /\ Effective.nsDomains.type = "array" ) =>
           /\ hit # {} =>
                 /\ result.network = "ns"
                 /\ result.isValid =>
                       /\ result.metadata.nsFormat = Trimmed(first)
                       /\ result.metadata.maxTotalLength = total
                       /\ result.metadata.maxLabelLength = label
                       /\ result.metadata.emojiAllowed = (allowed = "true")
                       /\ result.metadata.isSubdomain <=> Dots(a) - Dots(Trimmed(first)) > 1
                 /\ result.description = "NS domain exceeds maximum total length of N characters"
                       => result.descNum = total
                 /\ result.description = "NS domain label exceeds maximum length of N characters"
                       => result.descNum = label
                 /\ result.description = "Emoji characters are disabled for NS domain D"
                       => result.descStr = Trimmed(first) /\ e.emojiAllowed = "false"
           /\ hit = {} =>
                 /\ result.network # "ns"
                 /\ result = validateWalletAddress(address,
                                 [options EXCEPT !.nsDomains = NsUndefined],
                                 forceChecksumValidation, platform)

\* 'a.foo.eth' where 'eth', with limits of 10 and 5, is listed before
\* 'foo.eth': the result carries the settings of 'eth'.
C25_Witness ==
    /\ Validated
    /\ address = Str(<<"a",".","f","o","o",".","e","t","h">>)
    /\ options.nsDomains.type = "array"
    /\ Len(options.nsDomains.items) = 2
    /\ options.nsDomains.items[2].domain = <<"f","o","o",".","e","t","h">>
    /\ result.network = "ns"
    /\ result.isValid
    /\ result.metadata.nsFormat = D_eth
    /\ result.metadata.maxTotalLength = 10
    /\ result.metadata.isSubdomain

\* C26: under default options, every input that matches the Bitcoin legacy,
\* Bitcoin segwit, Litecoin legacy or Litecoin segwit pattern and whose
\* base58check decoding fails yields network 'btc' or 'ltc', isValid false and
\* the description 'Invalid <Bitcoin|Litecoin> <Legacy|SegWit> address' of its
\* format, never 'Unknown address format', 'Validation failed: ' or the
\* network of a later family.
C26_Base58FailureIsFormatSpecific ==
    LET a == address.str
        Rejected(network, description) ==
            /\ result.kind = "info"
            /\ result.network = network
            /\ ~result.isValid
            /\ result.description = description
    IN ( /\ Validated
         /\ options.type = "undefined"
         /\ platform = "ok"
         /\ address.type = "string" ) =>
           /\ (pat_btc_legacy(a) /\ ~base58checkDecodes(a))
                 => Rejected("btc", "Invalid Bitcoin Legacy address")
           /\ (pat_btc_segwit(a) /\ ~base58checkDecodes(a))
                 => Rejected("btc", "Invalid Bitcoin SegWit address")
           /\ (pat_ltc_legacy(a) /\ ~base58checkDecodes(a))
                 => Rejected("ltc", "Invalid Litecoin Legacy address")
           /\ (pat_ltc_segwit(a) /\ ~base58checkDecodes(a))
                 => Rejected("ltc", "Invalid Litecoin SegWit address")

\* The tests' Litecoin segwit address with a broken checksum, default options.
C26_Witness ==
    /\ Validated
    /\ options.type = "undefined"
    /\ platform = "ok"
    /\ address = Str(TestAddress.ltc_segwit_bad)
    /\ pat_ltc_segwit(address.str)
    /\ ~base58checkDecodes(address.str)
    /\ result.network = "ltc"
    /\ ~result.isValid

\* C27: under default options, every 58-character string over A-Z and 2-7 is
\* reported as network 'algo', isValid true, and every G followed by 55 such
\* characters as network 'xlm', isValid true: no earlier stage of the chain,
\* the Tron stage in particular, claims such a string.
C27_Base32NotPreempted ==
    LET a == address.str
        base32 == UpperSet \cup {"2", "3", "4", "5", "6", "7"}
        OverBase32(s) == \A i \in 1..Len(s) : s[i] \in base32
    IN ( /\ Validated
         /\ options.type = "undefined"
         /\ platform = "ok"
         /\ address.type = "string"
         /\ OverBase32(a) ) =>
           /\ Len(a) = 58 => result.network = "algo" /\ result.isValid
           /\ (Len(a) = 56 /\ a[1] = "G") => result.network = "xlm" /\ result.isValid

\* C28: no result has isValid true together with metadata.isTestnet true
\* unless options.testnet is true, whichever recognizer set isTestnet.
C28_TestnetOnlyWhenEnabled ==
    ( /\ Validated
      /\ result.kind = "info"
      /\ result.isValid
      /\ "isTestnet" \in result.metadata.keys
      /\ result.metadata.isTestnet ) => Effective.testnet = "true"

\* C29: whenever validateOptions accepts an options object, every nsDomains
\* entry has a non-empty suffix after trimming and stripping trailing dots,
\* and its effective label limit (maxLabelLength, default 63) does not exceed
\* its effective total limit (maxTotalLength, default 255), also when only one
\* of the two is supplied.
C29_AcceptedConfigInvariant ==
    LET entries == Effective.nsDomains.items
        total(e) == IF e.maxTotalLength.type = "undefined" THEN 255 ELSE e.maxTotalLength.n
        label(e) == IF e.maxLabelLength.type = "undefined" THEN 63 ELSE e.maxLabelLength.n
    IN ( /\ Validated /\ WellFormedOptions
         /\ Effective.nsDomains.type = "array" ) =>
           \A i \in 1..Len(entries) :
               /\ stripTrailingDots(trim(entries[i].domain)) # <<>>
               /\ label(entries[i]) <= total(entries[i])

\* C30: validateICANChecksum terminates on every input string, also on
\* strings that do not match the ICAN pattern (empty, shorter than four
\* characters, with characters other than letters and digits): every pass of
\* its loop shortens the working string, and the function returns a boolean.
C30_IcanChecksumTerminates ==
    LET upper == toUpperCase(address.str)
        working == convert(sliceFrom(upper, 4)
                           \o SubSeq(upper, 1, IF Len(upper) < 4 THEN Len(upper) ELSE 4))
    IN fn = "validateICANChecksum" =>
         /\ returned
         /\ Len(working) > 2 => Len(icanPass(working)) < Len(working)
====
